---- MODULE Spec2Model ----
(***************************************************************************)
(* Verification model of the Verus ticker API pipeline:                    *)
(*   converter_discovery.py  - multi-chain discovery, bridge and holdings  *)
(*                             filters                                     *)
(*   liquidity_calculator.py - converter and pair liquidity                *)
(*   data_integration.py     - pair volume / OHLC extraction, the          *)
(*                             converter list across runs                  *)
(*   ticker_formatting.py    - the three aggregators                       *)
(*   verussupply.py          - the supply endpoint and its response cache  *)
(* Amounts that are floats in the source are integers here; a quotient is  *)
(* kept as the pair <<numerator, denominator>>.                            *)
(***************************************************************************)
EXTENDS Integers, Sequences, FiniteSets, TLC

VARIABLES
    \* ---- converter_discovery.discover_active_converters ----
    env,                 \* os.environ entries read by get_min_native_tokens
    chains,              \* the chains argument
    dpc,                 \* position in discover_active_converters
    chainIdx,            \* index of the chain the for-loop is at
    all_raw_converters,  \* converter_discovery.py:337
    chain_results,       \* converter_discovery.py:338
    fetched,             \* chain -> the list its getcurrencyconverters call answered
    discovery,           \* the returned dict (NoResult until returned)
    \* ---- liquidity_calculator ----
    arg_name,            \* argument converter_name of get_converter_liquidity
    arg_data,            \* argument converters_data of get_converter_liquidity
    lpc,                 \* position in get_converter_liquidity
    native_ratio,        \* answer of hop 1 (converter -> native currency)
    chain_to_vrsc_rate,  \* answer of the chain -> VRSC hop (non-VRSC chains)
    vrsc_usd_price,      \* answer of the VRSC -> USD hop
    requests,            \* the estimateconversion requests issued, in order
    total_liquidity,     \* the value get_converter_liquidity returned
    pair,                \* the last get_pair_liquidity call and its value
    \* ---- data_integration.extract_all_pairs_data ----
    epc,                 \* position in extract_all_pairs_data
    live_height,         \* per chain, the 'blocks' getinfo answers with now
    session,             \* block_height: session id and memoized heights
    height_at_start,     \* per chain, the live height when the session began
    current_block,       \* data_integration.py:305
    converters,          \* data_integration.py:308
    converter_idx,       \* index of the converter the for-loop is at
    lens_idx,            \* index of the currency the inner for-loop is at
    all_volume_data,     \* data_integration.py:345
    queries,             \* the getcurrencystate requests issued, in order
    all_pairs,           \* data_integration.py:320
    extraction,          \* the returned dict (NoExtraction until returned)
    \* ---- ticker_formatting (the three aggregators) ----
    pairs_data,          \* the argument pairs_data
    called,              \* the aggregator that was called, "" before the call
    paprika_tickers,     \* what generate_coinpaprika_tickers returned
    cmc_tickers,         \* what generate_coinmarketcap_enhanced_tickers returned
    iaddress_tickers,    \* what aggregate_pairs_for_iaddress_cmc returned
    \* ---- converter_discovery.json across runs ----
    run,                 \* the number of runs started so far
    discovery_file,      \* converter_discovery.json: its content and writer
    loaded,              \* what the last load_converter_data call returned
    \* ---- verussupply.get_vrsc_supply ----
    now,                 \* time.time(), in seconds
    supply_response_cache,  \* verussupply.py:20
    supply_call,         \* the outcome of the last get_vrsc_supply call
    \* ---- converter_discovery.get_native_token_holdings ----
    holdings_converter,  \* the argument converter
    holdings_chain,      \* the argument chain
    native_holdings      \* the value returned (NotCalled before the call)

dvars == <<env, chains, dpc, chainIdx, all_raw_converters, chain_results, fetched,
           discovery>>

lvars == <<arg_name, arg_data, lpc, native_ratio, chain_to_vrsc_rate,
           vrsc_usd_price, requests, total_liquidity, pair>>

evars == <<epc, live_height, session, height_at_start, current_block, converters,
           converter_idx, lens_idx, all_volume_data, queries, all_pairs, extraction>>

avars == <<pairs_data, called, paprika_tickers, cmc_tickers, iaddress_tickers>>

rvars == <<run, discovery_file, loaded>>

svars == <<now, supply_response_cache, supply_call>>

hvars == <<holdings_converter, holdings_chain, native_holdings>>

(***************************************************************************)
(* Small helpers                                                           *)
(***************************************************************************)
HasKey(d, k) == k \in DOMAIN d

RECURSIVE SelectSeqBy(_, _)
\* the sub-sequence of s of the elements at the positions in keep, in order
SelectSeqBy(s, keep) ==
    IF s = <<>> THEN <<>>
    ELSE LET rest == SelectSeqBy(Tail(s), {i - 1 : i \in keep \ {1}})
         IN IF 1 \in keep THEN <<Head(s)>> \o rest ELSE rest

(***************************************************************************)
(* Chains, currencies and names                                            *)
(***************************************************************************)
Chains == {"VRSC", "CHIPS", "VARRR", "VDEX"}

\* A fullyqualifiedname that is not a str (JSON null, a number): it has no
\* startswith method.
NonString == "<non-string>"

\* str.startswith('Bridge.') on the names of the model
IsBridgeName(name) ==
    name \in {"Bridge.CHIPS", "Bridge.vARRR", "Bridge.vDEX", "Bridge.vETH", "Bridge.X"}

\* converter_discovery.py:105-110
bridge_converter_chains ==
    [n \in {"Bridge.CHIPS", "Bridge.vARRR", "Bridge.vDEX", "Bridge.vETH"} |->
        CASE n = "Bridge.CHIPS" -> "CHIPS"
          [] n = "Bridge.vARRR" -> "VARRR"
          [] n = "Bridge.vDEX"  -> "VDEX"
          [] n = "Bridge.vETH"  -> "VRSC"]

\* dict.get(name): None when the name is not in the table
NoChain == "<None>"

ExpectedChain(name) ==
    IF name \in DOMAIN bridge_converter_chains
    THEN bridge_converter_chains[name] ELSE NoChain

\* converter_discovery.py:207-212
chain_currency_ids ==
    [c \in Chains |->
        CASE c = "VRSC"  -> "i5w5MuNik5NtLcYmNzcvaoixooEebB6MGV"
          [] c = "CHIPS" -> "iJ3WZocnjG9ufv7GKUA4LijQno5gTMb7tP"
          [] c = "VARRR" -> "iExBJfZYK7KREDpuhj6PzZBzqMAKaFg7d2"
          [] c = "VDEX"  -> "iHog9UCTrn95qpUBFCZ7kKz7qWdMA8MQ6N"]

DaiId == "iGBs4DWztRNvNEJBt4mqHszLxfKTNHTkhM"

\* dict.py:67-90 with the entries of currency_contract_mapping the model uses
currency_contract_mapping ==
    [i \in {chain_currency_ids["VRSC"], DaiId} |->
        IF i = DaiId THEN "DAI.vETH" ELSE "VRSC"]

get_ticker_by_id(currency_id) ==
    IF currency_id \in DOMAIN currency_contract_mapping
    THEN currency_contract_mapping[currency_id]
    ELSE currency_id

(***************************************************************************)
(* dict.get_min_native_tokens                                              *)
(***************************************************************************)
\* float(text) for the numerals the environments of the model hold
FloatOf ==
    [t \in {"0", "50", "100", "200"} |->
        CASE t = "0" -> 0 [] t = "50" -> 50 [] t = "100" -> 100 [] t = "200" -> 200]

\* The .env contents the runs are checked under: no entry at all (every chain
\* falls back to the built-in "100"), a chain-specific entry, a global default.
EnvConfigs ==
    { [PATH |-> "/usr/bin"],
      [PATH |-> "/usr/bin", VRSC_MIN_NATIVE_TOKENS |-> "50"],
      [PATH |-> "/usr/bin", DEFAULT_MIN_NATIVE_TOKENS |-> "200",
       CHIPS_MIN_NATIVE_TOKENS |-> "0"] }

\* dict.py:19-27 (as a function of the environment e)
MinNativeTokensIn(e, chain) ==
    LET env_key == chain \o "_MIN_NATIVE_TOKENS"
    IN IF HasKey(e, env_key)
       THEN FloatOf[e[env_key]]
       ELSE IF HasKey(e, "DEFAULT_MIN_NATIVE_TOKENS")
            THEN FloatOf[e["DEFAULT_MIN_NATIVE_TOKENS"]]
            ELSE FloatOf["100"]

get_min_native_tokens(chain) == MinNativeTokensIn(env, chain)

(***************************************************************************)
(* Raw converter records, as getcurrencyconverters returns them            *)
(***************************************************************************)
Reserve(id, w, r) == [currencyid |-> id, weight |-> w, reserves |-> r]

RawConverter(name, id, supply, rcs) ==
    [fullyqualifiedname |-> name, idkey |-> id,
     lastnotarization |-> [currencystate |->
                              [supply |-> supply, reservecurrencies |-> rcs]]]

VrscId == chain_currency_ids["VRSC"]
ChipsId == chain_currency_ids["CHIPS"]
VarrrId == chain_currency_ids["VARRR"]
VdexId == chain_currency_ids["VDEX"]

\* The records the chains may report. Catalogue[5] carries a
\* fullyqualifiedname of the wrong type; Catalogue[6] is a bridge the
\* home-chain table does not name.
Catalogue ==
    << RawConverter("Bridge.CHIPS", "i3nokiCTVevZMLpR3VmZ7YDfCqA5juUqqH", 5000,
                    <<Reserve(ChipsId, 50, 500), Reserve(VrscId, 50, 500)>>),
       RawConverter("Bridge.vETH", "i3f7tSctFkiPpiedY8QR5Tep9p4qDVebDx", 69665,
                    <<Reserve(VrscId, 25, 1000), Reserve(DaiId, 25, 2000)>>),
       RawConverter("Pure", "iHax5qYQGbcMGqJKKrPorpzUBX2oFFXGnY", 2000,
                    <<Reserve(VrscId, 50, 50), Reserve(DaiId, 50, 10)>>),
       RawConverter("Highroller.CHIPS", "iNLBYPcNM3c5mzRdtfjd9Hk86WPijQfZhW", 900,
                    <<Reserve(ChipsId, 100, 150)>>),
       RawConverter(NonString, "iAik7rePReFq2t7LZMZhHCJ52fT5pisJ5C", 1500,
                    <<Reserve(VrscId, 50, 300), Reserve(ChipsId, 50, 30)>>),
       RawConverter("Bridge.X", "iXbridgeXbridgeXbridgeXbridgeXbrid", 1200,
                    <<Reserve(VrscId, 50, 150), Reserve(ChipsId, 50, 150)>>),
       RawConverter("Bridge.vARRR", "iD5WRg7jdQM1uuoVHsBCAEKfJCKGs1U3TB", 3000,
                    <<Reserve(VarrrId, 50, 400), Reserve(VrscId, 50, 400)>>),
       RawConverter("Bridge.vDEX", "i6j1rzjgrDhSmUYiTtp21J8Msiudv5hgt9", 800,
                    <<Reserve(VdexId, 50, 80), Reserve(VrscId, 50, 600)>>) >>

\* getcurrencyconverters(chain) lists the converters that hold the chain's
\* native currency as a reserve
ReportedBy(chain) ==
    {i \in 1..Len(Catalogue) :
        \E j \in 1..Len(Catalogue[i].lastnotarization.currencystate.reservecurrencies) :
            Catalogue[i].lastnotarization.currencystate.reservecurrencies[j].currencyid
                = chain_currency_ids[chain]}

\* The most converters one chain reports in one answer
MaxReported == 2

\* The lists make_rpc_call(chain, "getcurrencyconverters", ...) may answer
\* with: the empty list or a list of distinct records.
ConverterLists(chain) ==
    { SelectSeqBy(Catalogue, keep) :
        keep \in {k \in SUBSET ReportedBy(chain) : Cardinality(k) <= MaxReported} }

(***************************************************************************)
(* converter_discovery.py                                                  *)
(***************************************************************************)
\* converter.get('fullyqualifiedname', '')
NameOf(converter) ==
    IF HasKey(converter, "fullyqualifiedname") THEN converter.fullyqualifiedname ELSE ""

\* converter_name.startswith raises AttributeError when the name is no str
RaisesInBridgeFilter(converter) == NameOf(converter) = NonString

\* converter_discovery.py:112-131, the decision for one converter
KeptByBridgeFilter(converter, chain) ==
    IF IsBridgeName(NameOf(converter))
    THEN ExpectedChain(NameOf(converter)) = chain
    ELSE TRUE

\* converter_discovery.py:87-138
filter_bridge_converters_by_chain(converters_data, chain) ==
    IF \E i \in 1..Len(converters_data) : RaisesInBridgeFilter(converters_data[i])
    THEN converters_data        \* except Exception: return converters_data
    ELSE SelectSeq(converters_data, LAMBDA c : KeptByBridgeFilter(c, chain))

\* converter['source_chain'] = chain
TagSourceChain(converter, chain) == [source_chain |-> chain] @@ converter

RECURSIVE FirstReserves(_, _, _)
\* the reserves of the first entry of the list whose field `key` equals want,
\* <<FALSE, 0>> when there is none
FirstReserves(reserve_currencies, key, want) ==
    IF reserve_currencies = <<>> THEN <<FALSE, 0>>
    ELSE LET reserve == Head(reserve_currencies)
         IN IF HasKey(reserve, key) /\ reserve[key] = want
            THEN <<TRUE, IF HasKey(reserve, "reserves") THEN reserve.reserves ELSE 0>>
            ELSE FirstReserves(Tail(reserve_currencies), key, want)

\* converter_discovery.py:181-246
get_native_token_holdings(converter, chain) ==
    IF HasKey(converter, "reserve_currencies")
    THEN LET hit == FirstReserves(converter.reserve_currencies, "ticker", chain)
         IN IF hit[1] THEN hit[2] ELSE 0
    ELSE IF HasKey(converter, "lastnotarization")
    THEN LET currency_state ==
                 IF HasKey(converter.lastnotarization, "currencystate")
                 THEN converter.lastnotarization.currencystate ELSE [none |-> TRUE]
             reserve_currencies ==
                 IF HasKey(currency_state, "reservecurrencies")
                 THEN currency_state.reservecurrencies ELSE <<>>
             byId == IF chain \in DOMAIN chain_currency_ids
                     THEN FirstReserves(reserve_currencies, "currencyid",
                                        chain_currency_ids[chain])
                     ELSE <<FALSE, 0>>
             byName == FirstReserves(reserve_currencies, "currencyid", chain)
         IN IF byId[1] THEN byId[2]
            ELSE IF byName[1] THEN byName[2] ELSE 0
    ELSE IF HasKey(converter, "reserves")
    THEN IF HasKey(converter.reserves, chain) THEN converter.reserves[chain] ELSE 0
    ELSE 0

\* converter_discovery.py:166
PassesHoldings(converter) ==
    get_native_token_holdings(converter, converter.source_chain)
        >= get_min_native_tokens(converter.source_chain)

\* the filter failing open: every converter included
filter_converters_fail_open(converters_data) == <<converters_data, <<>>>>

\* the filter appending every converter to the included list
filter_converters_include_all(converters_data) ==
    << converters_data, SelectSeq(converters_data, LAMBDA c : ~PassesHoldings(c)) >>

\* converter_discovery.py:140-179: <<included_converters, excluded_converters>>
filter_converters_by_native_holdings(converters_data) ==
    << SelectSeq(converters_data, PassesHoldings),
       SelectSeq(converters_data, LAMBDA c : ~PassesHoldings(c)) >>

\* converter_discovery.py:276-279: the first key that is none of the four
\* known ones; the record's identifier key comes first in an RPC answer, and
\* source_chain, set by the caller, comes last
CurrencyIdKey(converter) ==
    IF HasKey(converter, "idkey") THEN converter.idkey ELSE "source_chain"

\* converter_discovery.py:289-304
ReserveInfo(rc) ==
    [currency_id |-> rc.currencyid,
     ticker      |-> get_ticker_by_id(rc.currencyid),
     weight      |-> rc.weight,
     reserves    |-> rc.reserves]

NoValue == "<None>"

\* converter_discovery.py:248-309
extract_converter_info(converter) ==
    LET hasState == /\ HasKey(converter, "lastnotarization")
                    /\ HasKey(converter.lastnotarization, "currencystate")
        state == converter.lastnotarization.currencystate
    IN [name |-> IF HasKey(converter, "fullyqualifiedname")
                 THEN converter.fullyqualifiedname ELSE NoValue,
        currency_id |-> CurrencyIdKey(converter),
        has_supply |-> hasState /\ HasKey(state, "supply"),
        supply |-> IF hasState /\ HasKey(state, "supply") THEN state.supply ELSE 0,
        reserve_currencies |->
            IF hasState /\ HasKey(state, "reservecurrencies")
            THEN [i \in 1..Len(state.reservecurrencies) |->
                     ReserveInfo(state.reservecurrencies[i])]
            ELSE <<>>,
        source_chain |-> converter.source_chain,
        raw_data |-> converter]

\* The chains arguments the runs are checked under: the default, the callers'
\* four chains (main.py:1012, data_integration.py:219), and shorter lists.
ChainLists ==
    { <<"VRSC">>, <<"CHIPS">>, <<"CHIPS", "VRSC">>, <<"VRSC", "CHIPS">>,
      <<"VRSC", "CHIPS", "VARRR", "VDEX">> }

NoResult == [returned |-> FALSE]

\* converter_discovery.py:355-360 and 363-368
ChainRecord(filtered_converters, raw_converters) ==
    [count |-> Len(filtered_converters),
     converters |-> filtered_converters,
     total_found |-> Len(raw_converters),
     bridge_filtered |-> Len(raw_converters) - Len(filtered_converters)]

\* converter_discovery.py:329-338: the call, up to the first RPC
DiscoverBegin ==
    /\ dpc \in {"idle", "done"}
    /\ \E cs \in ChainLists : chains' = cs
    /\ dpc' = "loop"
    /\ chainIdx' = 1
    /\ all_raw_converters' = <<>>
    /\ chain_results' = <<>>
    /\ fetched' = <<>>
    /\ discovery' = NoResult
    /\ UNCHANGED env
    /\ UNCHANGED <<lvars, evars, avars, rvars, svars, hvars>>

\* converter_discovery.py:341-360: one iteration whose get_all_converters
\* returns a non-empty list
DiscoverChainFound ==
    /\ dpc = "loop"
    /\ chainIdx <= Len(chains)
    /\ \E raw_converters \in ConverterLists(chains[chainIdx]) \ {<<>>} :
         LET chain == chains[chainIdx]
             kept == filter_bridge_converters_by_chain(raw_converters, chain)
             filtered_converters ==
                 [i \in 1..Len(kept) |-> TagSourceChain(kept[i], chain)]
         IN /\ fetched' = (chain :> raw_converters) @@ fetched
            /\ all_raw_converters' = all_raw_converters \o filtered_converters
            /\ chain_results' =
                   (chain :> ChainRecord(filtered_converters, raw_converters))
                       @@ chain_results
    /\ chainIdx' = chainIdx + 1
    /\ UNCHANGED <<env, chains, dpc, discovery>>
    /\ UNCHANGED <<lvars, evars, avars, rvars, svars, hvars>>

\* converter_discovery.py:341-346, 362-369: one iteration whose
\* get_all_converters returns None (the RPC failed) or [] (the chain answered
\* without converters)
DiscoverChainNone ==
    /\ dpc = "loop"
    /\ chainIdx <= Len(chains)
    /\ chain_results' = (chains[chainIdx] :> ChainRecord(<<>>, <<>>)) @@ chain_results
    /\ \E answered \in BOOLEAN :
         fetched' = IF answered THEN (chains[chainIdx] :> <<>>) @@ fetched ELSE fetched
    /\ chainIdx' = chainIdx + 1
    /\ UNCHANGED <<env, chains, dpc, all_raw_converters, discovery>>
    /\ UNCHANGED <<lvars, evars, avars, rvars, svars, hvars>>

\* converter_discovery.py:371-426: after the loop
DiscoverFinish ==
    /\ dpc = "loop"
    /\ chainIdx > Len(chains)
    /\ LET split == filter_converters_by_native_holdings(all_raw_converters)
           active_converter_info ==
               [i \in 1..Len(split[1]) |-> extract_converter_info(split[1][i])]
           excluded_converter_info ==
               [i \in 1..Len(split[2]) |-> extract_converter_info(split[2][i])]
       IN discovery' =
            IF all_raw_converters = <<>>
            THEN [returned |-> TRUE,
                  active_converters |-> <<>>,
                  excluded_converters |-> <<>>,
                  total_count |-> 0, active_count |-> 0, excluded_count |-> 0,
                  chains |-> chain_results,
                  has_error |-> TRUE]
            ELSE [returned |-> TRUE,
                  active_converters |-> active_converter_info,
                  excluded_converters |-> excluded_converter_info,
                  total_count |-> Len(all_raw_converters),
                  active_count |-> Len(active_converter_info),
                  excluded_count |-> Len(excluded_converter_info),
                  chains |-> chain_results,
                  has_error |-> FALSE]
    /\ dpc' = "done"
    /\ UNCHANGED <<env, chains, chainIdx, all_raw_converters, chain_results, fetched>>
    /\ UNCHANGED <<lvars, evars, avars, rvars, svars, hvars>>

DiscoveryInit ==
    /\ env \in EnvConfigs
    /\ chains = <<>>
    /\ dpc = "idle"
    /\ chainIdx = 1
    /\ all_raw_converters = <<>>
    /\ chain_results = <<>>
    /\ fetched = <<>>
    /\ discovery = NoResult

DiscoveryNext ==
    \/ DiscoverBegin
    \/ DiscoverChainFound
    \/ DiscoverChainNone
    \/ DiscoverFinish

(***************************************************************************)
(* Claims about discovery                                                  *)
(***************************************************************************)
RECURSIVE SumSeq(_)
SumSeq(s) == IF s = <<>> THEN 0 ELSE Head(s) + SumSeq(Tail(s))

\* What a converter holds of a chain's native currency: the reserves its
\* last notarization lists under that chain's currency identifier.
HeldNative(converter, chain) ==
    LET rcs == converter.lastnotarization.currencystate.reservecurrencies
    IN SumSeq([i \in 1..Len(rcs) |->
                  IF rcs[i].currencyid = chain_currency_ids[chain]
                  THEN rcs[i].reserves ELSE 0])

ActiveAt(name) ==
    {i \in 1..Len(discovery.active_converters) :
        discovery.active_converters[i].name = name}

\* C1: every bridge converter of the home-chain table is in the merged active
\* set at most once, and only with source_chain equal to its home chain.
C1_BridgeOnceAtHome ==
    discovery.returned =>
        \A name \in DOMAIN bridge_converter_chains :
            /\ Cardinality(ActiveAt(name)) <= 1
            /\ \A i \in ActiveAt(name) :
                   discovery.active_converters[i].source_chain
                       = bridge_converter_chains[name]

MinLiquidityThreshold == 1000

\* The most reserve currencies of a converter
MaxReserves == 3

\* The largest rate an estimateconversion answers with
MaxRate == 2

\* identifiers of reserve currencies, by position in the reserve list
ReserveIds == <<VrscId, DaiId, "iCkKJuJScy4Z6NSDK7Mt42ZAB2NEnAE1o4",
                "i9nwxtKuVYX4MSbeULLiK2ttVi6rUEhh4X", ChipsId>>

\* reserve weights: a missing weight reads as 0 (liquidity_calculator.py:267)
Weights == {0, 25, 50}

\* the weights of a converter's reserves, in ascending order (the order of
\* the reserves does not enter the calculation), and one list of four with
\* a reserve of weight 0
WeightLists ==
    {w \in UNION {[1..n -> Weights] : n \in 2..MaxReserves} :
        \A i \in 1..(Len(w) - 1) : w[i] <= w[i + 1]}
    \cup {<<0, 25, 25, 50>>}

ReservesOf(w) == [i \in 1..Len(w) |-> Reserve(ReserveIds[i], w[i], 100)]

\* a supply of 0, one below the floor, the floor, and twice the floor
Supplies == {0, MinLiquidityThreshold - 1, MinLiquidityThreshold,
             2 * MinLiquidityThreshold}

\* the discovered converters get_converter_liquidity is called for: for each
\* chain one converter, with every supply and every list of weights; and the
\* same without a supply in the notarization ('supply': None)
LiquidityConverters ==
    LET named == { <<"Bridge.vETH", "i3f7tSctFkiPpiedY8QR5Tep9p4qDVebDx", "VRSC">>,
                   <<"Highroller.CHIPS", "iNLBYPcNM3c5mzRdtfjd9Hk86WPijQfZhW", "CHIPS">>,
                   <<"Bridge.vARRR", "iD5WRg7jdQM1uuoVHsBCAEKfJCKGs1U3TB", "VARRR">> }
    IN { extract_converter_info(
             TagSourceChain(RawConverter(n[1], n[2], sup, ReservesOf(w)), n[3])) :
           n \in named, sup \in Supplies, w \in WeightLists }
       \cup
       { extract_converter_info(
             TagSourceChain(
                 [fullyqualifiedname |-> n[1], idkey |-> n[2],
                  lastnotarization |-> [currencystate |->
                      [reservecurrencies |-> ReservesOf(<<50, 50>>)]]], n[3])) :
           n \in named }

\* An estimateconversion answer: none (the call failed, timed out or came
\* without 'estimatedcurrencyout'), or a rate, which may be <= 0
NoAnswer == [ok |-> FALSE, out |-> 0]

RateAnswers == {NoAnswer} \cup {[ok |-> TRUE, out |-> v] : v \in (-1)..MaxRate}

NotAsked == [ok |-> FALSE, out |-> -1]

\* a failed hop read as a placeholder rate of 1
RateOf_placeholder(answer) == IF answer.ok THEN answer.out ELSE 1

\* the sign of a rate dropped
RateOf_unsigned(answer) ==
    IF answer.ok THEN (IF answer.out < 0 THEN -answer.out ELSE answer.out) ELSE 0

\* float(result['estimatedcurrencyout']) if the answer has it, else the
\* initial 0 (liquidity_calculator.py:33-39, 71-77, 151-189)
RateOf(answer) == IF answer.ok THEN answer.out ELSE 0

RECURSIVE FindConverter(_, _)
\* liquidity_calculator.py:132-136: <<found, converter_info>>
FindConverter(data, name) ==
    IF data = <<>> THEN <<FALSE, [name |-> NoValue]>>
    ELSE IF Head(data).name = name THEN <<TRUE, Head(data)>>
    ELSE FindConverter(Tail(data), name)

\* liquidity_calculator.py:138-147: the call returns 0.0 before any request
RejectedBeforeHops(data, name) ==
    LET found == FindConverter(data, name)
    IN \/ ~found[1]
       \/ ~found[2].has_supply           \* float(None) raises: except, 0.0
       \/ found[2].currency_id = ""
       \/ found[2].supply <= 0

\* liquidity_calculator.py:153-189: the hop-1 request
Hop1Request(info) ==
    [chain |-> info.source_chain,
     currency |-> info.currency_id,
     convertto |-> IF info.source_chain = "VRSC" THEN "VRSC" ELSE info.source_chain,
     via |-> NoValue]

\* liquidity_calculator.py:57-69
BridgeNameOf(chain) ==
    CASE chain = "CHIPS" -> "Bridge.CHIPS"
      [] chain = "VARRR" -> "Bridge.vARRR"
      [] chain = "VDEX"  -> "Bridge.vDEX"
      [] OTHER -> "Bridge." \o chain

ChainToVrscRequest(chain) ==
    [chain |-> chain, currency |-> chain, convertto |-> "VRSC",
     via |-> BridgeNameOf(chain)]

\* liquidity_calculator.py:30-31
VrscUsdRequest ==
    [chain |-> "VRSC", currency |-> "VRSC", convertto |-> "DAI.vETH",
     via |-> "Bridge.vETH"]

\* the floor applied to the USD value instead of the supply
FinalLiquidity_on_value(supply, ratio, native_usd_price) ==
    IF supply * ratio * native_usd_price < MinLiquidityThreshold THEN 0
    ELSE supply * ratio * native_usd_price

\* liquidity_calculator.py:207-221
FinalLiquidity(supply, ratio, native_usd_price) ==
    IF supply < MinLiquidityThreshold THEN 0
    ELSE supply * ratio * native_usd_price

NoPair == [called |-> FALSE]

\* every name the model passes as converter_name
UnknownName == "Unknown.X"

\* liquidity_calculator.py:130-147: the call, up to the first request
LiquidityBegin ==
    /\ lpc = "idle"
    /\ \E info \in LiquidityConverters :
         \E name \in {info.name, UnknownName} :
            /\ arg_name' = name
            /\ arg_data' = <<info>>
            /\ IF RejectedBeforeHops(<<info>>, name)
               THEN /\ lpc' = "done"
                    /\ total_liquidity' = 0
                    /\ requests' = <<>>
               ELSE /\ lpc' = "hop1"
                    /\ total_liquidity' = 0
                    /\ requests' = <<Hop1Request(info)>>
    /\ native_ratio' = NotAsked
    /\ chain_to_vrsc_rate' = NotAsked
    /\ vrsc_usd_price' = NotAsked
    /\ pair' = NoPair
    /\ UNCHANGED <<dvars, evars, avars, rvars, svars, hvars>>

\* liquidity_calculator.py:153-205: the answer of hop 1; the next request is
\* get_vrsc_usd_price_cached for a VRSC converter, get_chain_to_vrsc_rate
\* (inside get_chain_usd_price) for any other
LiquidityHop1 ==
    /\ lpc = "hop1"
    /\ \E answer \in RateAnswers :
         LET info == FindConverter(arg_data, arg_name)[2]
         IN /\ native_ratio' = answer
            /\ IF RateOf(answer) <= 0
               THEN /\ lpc' = "done"
                    /\ total_liquidity' = 0
                    /\ requests' = requests
               ELSE IF info.source_chain = "VRSC"
               THEN /\ lpc' = "vrsc_usd"
                    /\ requests' = Append(requests, VrscUsdRequest)
                    /\ UNCHANGED total_liquidity
               ELSE /\ lpc' = "chain_vrsc"
                    /\ requests' = Append(requests, ChainToVrscRequest(info.source_chain))
                    /\ UNCHANGED total_liquidity
    /\ UNCHANGED <<arg_name, arg_data, chain_to_vrsc_rate, vrsc_usd_price, pair>>
    /\ UNCHANGED <<dvars, evars, avars, rvars, svars, hvars>>

\* liquidity_calculator.py:94-102: the answer of the chain -> VRSC request
LiquidityChainToVrsc ==
    /\ lpc = "chain_vrsc"
    /\ \E answer \in RateAnswers :
         /\ chain_to_vrsc_rate' = answer
         /\ IF RateOf(answer) <= 0
            THEN /\ lpc' = "done"         \* get_chain_usd_price returns 0.0
                 /\ total_liquidity' = 0
                 /\ requests' = requests
            ELSE /\ lpc' = "vrsc_usd"
                 /\ requests' = Append(requests, VrscUsdRequest)
                 /\ UNCHANGED total_liquidity
    /\ UNCHANGED <<arg_name, arg_data, native_ratio, vrsc_usd_price, pair>>
    /\ UNCHANGED <<dvars, evars, avars, rvars, svars, hvars>>

\* liquidity_calculator.py:102-111, 196-225: the answer of the VRSC -> USD
\* request and the rest of the call
LiquidityVrscUsd ==
    /\ lpc = "vrsc_usd"
    /\ \E answer \in RateAnswers :
         LET info == FindConverter(arg_data, arg_name)[2]
             native_usd_price ==
                 IF info.source_chain = "VRSC" THEN RateOf(answer)
                 ELSE IF RateOf(answer) <= 0 THEN 0
                 ELSE RateOf(chain_to_vrsc_rate) * RateOf(answer)
         IN /\ vrsc_usd_price' = answer
            /\ total_liquidity' =
                   IF native_usd_price <= 0 THEN 0
                   ELSE FinalLiquidity(info.supply, RateOf(native_ratio), native_usd_price)
    /\ lpc' = "done"
    /\ UNCHANGED <<arg_name, arg_data, native_ratio, chain_to_vrsc_rate, requests, pair>>
    /\ UNCHANGED <<dvars, evars, avars, rvars, svars, hvars>>

RECURSIVE WeightScan(_, _, _, _)
\* liquidity_calculator.py:261-275: the loop over the reserve currencies,
\* from the accumulator acc = [base_weight, target_weight, total_weight]
WeightScan(reserve_currencies, base_currency, target_currency, acc) ==
    IF reserve_currencies = <<>> THEN acc
    ELSE LET rc == Head(reserve_currencies)
             weight == IF HasKey(rc, "weight") THEN rc.weight ELSE 0
             currency_ticker == IF HasKey(rc, "ticker") THEN rc.ticker ELSE ""
         IN WeightScan(Tail(reserve_currencies), base_currency, target_currency,
                [base_weight |-> IF currency_ticker = base_currency
                                 THEN weight ELSE acc.base_weight,
                 target_weight |-> IF currency_ticker = target_currency
                                   THEN weight ELSE acc.target_weight,
                 total_weight |-> acc.total_weight + weight])

\* a quotient num / den, den > 0
Frac(num, den) == <<num, den>>

Zero == Frac(0, 1)

\* the basket case without its factor of 2
BasketShare_single(non_converter_weight, total_weight, liquidity) ==
    Frac(non_converter_weight * liquidity, total_weight)

\* the doubled share of one reserve weight (the basket case)
BasketShare(non_converter_weight, total_weight, liquidity) ==
    Frac(non_converter_weight * liquidity * 2, total_weight)

\* the two weights multiplied instead of added
ReserveShare_product(base_weight, target_weight, total_weight, liquidity) ==
    Frac(base_weight * target_weight * liquidity, total_weight)

\* the regular case with the factor of 2 of the basket case
ReserveShare_doubled(base_weight, target_weight, total_weight, liquidity) ==
    Frac((base_weight + target_weight) * liquidity * 2, total_weight)

\* the target currency's weight left out
ReserveShare_base_only(base_weight, target_weight, total_weight, liquidity) ==
    Frac(base_weight * liquidity, total_weight)

\* the share of two reserve weights (the regular case)
ReserveShare(base_weight, target_weight, total_weight, liquidity) ==
    Frac((base_weight + target_weight) * liquidity, total_weight)

\* liquidity_calculator.py:246-302: get_pair_liquidity once
\* get_converter_liquidity has returned `liquidity`
PairLiquidity(name, base_currency, target_currency, data, liquidity) ==
    IF liquidity <= 0 THEN Zero
    ELSE IF ~FindConverter(data, name)[1] THEN Zero
    ELSE
      LET converter_info == FindConverter(data, name)[2]
          w == WeightScan(converter_info.reserve_currencies, base_currency,
                          target_currency,
                          [base_weight |-> 0, target_weight |-> 0, total_weight |-> 0])
          base_is_converter == base_currency = name
          target_is_converter == target_currency = name
          non_converter_weight ==
              IF base_is_converter THEN w.target_weight ELSE w.base_weight
      IN IF base_is_converter \/ target_is_converter
         THEN IF non_converter_weight > 0 /\ w.total_weight > 0
              THEN BasketShare(non_converter_weight, w.total_weight, liquidity)
              ELSE Zero
         ELSE IF w.base_weight > 0 /\ w.target_weight > 0 /\ w.total_weight > 0
              THEN ReserveShare(w.base_weight, w.target_weight, w.total_weight, liquidity)
              ELSE Zero

\* the currencies of a converter a pair is asked for: its basket token and
\* its reserve tickers (data_integration.py:252-273)
PairCurrencies(info) ==
    {info.name} \cup {info.reserve_currencies[i].ticker :
                        i \in 1..Len(info.reserve_currencies)}

\* liquidity_calculator.py:227-306: get_pair_liquidity, its
\* get_converter_liquidity call having returned total_liquidity
GetPairLiquidity ==
    /\ lpc = "done"
    /\ ~pair.called
    /\ FindConverter(arg_data, arg_name)[1]
    /\ \E base_currency, target_currency \in PairCurrencies(arg_data[1]) :
         /\ base_currency # target_currency
         /\ pair' = [called |-> TRUE,
                     base_currency |-> base_currency,
                     target_currency |-> target_currency,
                     value |-> PairLiquidity(arg_name, base_currency, target_currency,
                                             arg_data, total_liquidity)]
    /\ UNCHANGED <<arg_name, arg_data, lpc, native_ratio, chain_to_vrsc_rate,
                   vrsc_usd_price, requests, total_liquidity>>
    /\ UNCHANGED <<dvars, evars, avars, rvars, svars, hvars>>

LiquidityInit ==
    /\ arg_name = UnknownName
    /\ arg_data = <<>>
    /\ lpc = "idle"
    /\ native_ratio = NotAsked
    /\ chain_to_vrsc_rate = NotAsked
    /\ vrsc_usd_price = NotAsked
    /\ requests = <<>>
    /\ total_liquidity = 0
    /\ pair = NoPair

LiquidityNext ==
    \/ LiquidityBegin
    \/ LiquidityHop1
    \/ LiquidityChainToVrsc
    \/ LiquidityVrscUsd
    \/ GetPairLiquidity

(***************************************************************************)
(* Claims about liquidity                                                  *)
(***************************************************************************)
\* the converter the finished call was made for
Subject == arg_data[1]

Known == arg_data # <<>> /\ Subject.name = arg_name

\* a hop that was requested and failed or answered with a rate <= 0
HopBad(answer) == answer # NotAsked /\ (~answer.ok \/ answer.out <= 0)

\* a hop that was requested and answered with a rate > 0
HopGood(answer) == answer # NotAsked /\ answer.ok /\ answer.out > 0

\* C4: get_converter_liquidity returns exactly 0 when the converter is
\* unknown, its supply is missing or <= 0, or any requested hop failed or
\* answered <= 0; and it never returns a negative value.
C4_ZeroOnFailedHop ==
    lpc = "done" =>
        /\ total_liquidity >= 0
        /\ ( \/ ~Known
             \/ ~Subject.has_supply
             \/ Subject.supply <= 0
             \/ HopBad(native_ratio)
             \/ HopBad(chain_to_vrsc_rate)
             \/ HopBad(vrsc_usd_price) ) => total_liquidity = 0

\* a call on a chain other than VRSC, with supply above the floor, whose
\* first hop answered > 0 and whose chain -> VRSC hop did not
C4_Witness ==
    /\ lpc = "done"
    /\ Known
    /\ Subject.supply >= MinLiquidityThreshold
    /\ HopGood(native_ratio)
    /\ HopBad(chain_to_vrsc_rate)
    /\ total_liquidity = 0

AllHopsGood ==
    /\ Known
    /\ HopGood(native_ratio)
    /\ HopGood(vrsc_usd_price)
    /\ Subject.source_chain # "VRSC" => HopGood(chain_to_vrsc_rate)

ReserveTickers(info) ==
    {info.reserve_currencies[i].ticker : i \in 1..Len(info.reserve_currencies)}

\* the reserve weight recorded for a ticker
TickerWeight(info, ticker) ==
    SumSeq([i \in 1..Len(info.reserve_currencies) |->
               IF info.reserve_currencies[i].ticker = ticker
               THEN info.reserve_currencies[i].weight ELSE 0])

TotalWeight(info) ==
    SumSeq([i \in 1..Len(info.reserve_currencies) |-> info.reserve_currencies[i].weight])

\* the quotient f equals num / den
FracIs(f, num, den) == f[1] * den = num * f[2]

FracLeq(f, g) == f[1] * g[2] <= g[1] * f[2]

FracAdd(f, g) ==
    IF f[2] = g[2] THEN <<f[1] + g[1], f[2]>>
    ELSE <<f[1] * g[2] + g[1] * f[2], f[2] * g[2]>>

\* C6: for two distinct reserve currencies a and b, get_pair_liquidity is
\* ((weight_a + weight_b) / W) x L, and 0 if weight_a, weight_b or L is 0; two
\* currencies of 25% each get exactly half of L.
C6_ReservePair ==
    (pair.called /\ pair.base_currency # arg_name /\ pair.target_currency # arg_name) =>
        LET wa == TickerWeight(Subject, pair.base_currency)
            wb == TickerWeight(Subject, pair.target_currency)
            W == TotalWeight(Subject)
            L == total_liquidity
        IN /\ (wa = 0 \/ wb = 0 \/ L = 0) => pair.value[1] = 0
           /\ (wa > 0 /\ wb > 0 /\ L > 0) => FracIs(pair.value, (wa + wb) * L, W)
           /\ (W > 0 /\ 4 * wa = W /\ 4 * wb = W) => FracIs(pair.value, L, 2)

\* two reserve currencies of 25% each, in a converter with liquidity
C6_Witness ==
    /\ pair.called
    /\ pair.base_currency # arg_name
    /\ pair.target_currency # arg_name
    /\ total_liquidity > 0
    /\ 4 * TickerWeight(Subject, pair.base_currency) = TotalWeight(Subject)
    /\ 4 * TickerWeight(Subject, pair.target_currency) = TotalWeight(Subject)
    /\ FracIs(pair.value, total_liquidity, 2)

\* C7: with the basket token on one side and reserve currency r on the other
\* get_pair_liquidity is 2 x (weight_r / W) x L whichever side the basket
\* token is on, and 0 if weight_r or L is 0.
C7_BasketPair ==
    (pair.called /\ (pair.base_currency = arg_name \/ pair.target_currency = arg_name)) =>
        LET r == IF pair.base_currency = arg_name
                 THEN pair.target_currency ELSE pair.base_currency
            wr == TickerWeight(Subject, r)
            W == TotalWeight(Subject)
            L == total_liquidity
        IN /\ (wr = 0 \/ L = 0) => pair.value[1] = 0
           /\ (wr > 0 /\ L > 0) => FracIs(pair.value, 2 * wr * L, W)

\* the basket token as target, against a weighted reserve, with liquidity
C7_Witness ==
    /\ pair.called
    /\ pair.target_currency = arg_name
    /\ TickerWeight(Subject, pair.base_currency) > 0
    /\ total_liquidity > 0
    /\ pair.value[1] > 0

\* get_pair_liquidity of the reserve currencies at positions i and j of the
\* finished call's converter
PairAt(i, j) ==
    PairLiquidity(arg_name, Subject.reserve_currencies[i].ticker,
                  Subject.reserve_currencies[j].ticker, arg_data, total_liquidity)

RECURSIVE FracSum(_)
FracSum(fs) == IF fs = {} THEN Zero
               ELSE LET f == CHOOSE x \in fs : TRUE
                    IN FracAdd(f[2], FracSum(fs \ {f}))

\* the sum of get_pair_liquidity over the unordered pairs of distinct reserve
\* currencies
SumOverReservePairs ==
    LET n == Len(Subject.reserve_currencies)
    IN FracSum({ <<p, PairAt(p[1], p[2])>> :
                   p \in {q \in (1..n) \X (1..n) : q[1] < q[2]} })

\* C8 as claimed: the sum of get_pair_liquidity over all unordered pairs of
\* distinct reserve currencies never exceeds L.
C8_SumAtMostL ==
    (lpc = "done" /\ Known) =>
        FracLeq(SumOverReservePairs, Frac(total_liquidity, 1))

\* C8 as amended: the sum never exceeds (n - 1) x L, n being the number of
\* reserve currencies, and equals (n - 1) x L when every weight is positive.
C8_SumAtMostNMinusOneL ==
    (lpc = "done" /\ Known) =>
        LET n == Len(Subject.reserve_currencies)
            bound == Frac((n - 1) * total_liquidity, 1)
        IN /\ FracLeq(SumOverReservePairs, bound)
           /\ (\A i \in 1..n : Subject.reserve_currencies[i].weight > 0)
                  => FracLeq(bound, SumOverReservePairs)

\* three weighted reserve currencies: the pairs sum to 2 x L > L
C8_Witness ==
    /\ lpc = "done"
    /\ Known
    /\ total_liquidity > 0
    /\ Len(Subject.reserve_currencies) = 3
    /\ \A i \in 1..3 : Subject.reserve_currencies[i].weight > 0
    /\ FracIs(SumOverReservePairs, 2 * total_liquidity, 1)

\* the ordered pairs of positions of distinct reserve currencies
ReservePairs ==
    {p \in (1..Len(Subject.reserve_currencies)) \X (1..Len(Subject.reserve_currencies)) :
        p[1] # p[2]}

CombinedWeight(p) ==
    Subject.reserve_currencies[p[1]].weight + Subject.reserve_currencies[p[2]].weight

PositionOf(ticker) ==
    CHOOSE i \in 1..Len(Subject.reserve_currencies) :
        Subject.reserve_currencies[i].ticker = ticker

\* the pair get_pair_liquidity was called for, as positions
CalledPair == <<PositionOf(pair.base_currency), PositionOf(pair.target_currency)>>

CalledOnReserves ==
    /\ pair.called
    /\ pair.base_currency # arg_name
    /\ pair.target_currency # arg_name

\* C9 as claimed: with L and W fixed, a reserve pair of smaller or equal
\* combined weight never has the larger pair liquidity.
C9_Monotone ==
    CalledOnReserves =>
        \A q \in ReservePairs :
            /\ CombinedWeight(CalledPair) <= CombinedWeight(q)
                   => FracLeq(pair.value, PairAt(q[1], q[2]))
            /\ CombinedWeight(q) <= CombinedWeight(CalledPair)
                   => FracLeq(PairAt(q[1], q[2]), pair.value)

AllPositive(p) ==
    /\ Subject.reserve_currencies[p[1]].weight > 0
    /\ Subject.reserve_currencies[p[2]].weight > 0

\* C9 as amended: the same, among the reserve pairs both of whose currencies
\* have a positive weight.
C9_MonotonePositive ==
    (CalledOnReserves /\ AllPositive(CalledPair)) =>
        \A q \in {r \in ReservePairs : AllPositive(r)} :
            /\ CombinedWeight(CalledPair) <= CombinedWeight(q)
                   => FracLeq(pair.value, PairAt(q[1], q[2]))
            /\ CombinedWeight(q) <= CombinedWeight(CalledPair)
                   => FracLeq(PairAt(q[1], q[2]), pair.value)

\* two weighted pairs of different combined weight and different liquidity
C9_Witness ==
    /\ CalledOnReserves
    /\ AllPositive(CalledPair)
    /\ total_liquidity > 0
    /\ \E q \in {r \in ReservePairs : AllPositive(r)} :
           /\ CombinedWeight(CalledPair) < CombinedWeight(q)
           /\ ~FracLeq(PairAt(q[1], q[2]), pair.value)

(***************************************************************************)
(* data_integration.py                                                     *)
(***************************************************************************)
\* The most blocks a chain advances while one extraction runs
MaxAdvance == 1

\* the chains the converters of the extraction are queried on
ExtractChains == {"VRSC", "CHIPS"}

\* the height of each chain when the extraction is called
BaseHeight == [chain \in ExtractChains |->
                  IF chain = "VRSC" THEN 3500000 ELSE 2600000]

\* int(text) for the numerals the environments of the model hold
IntOf == [t \in {"1440", "8640"} |-> IF t = "1440" THEN 1440 ELSE 8640]

\* The .env contents the extraction is checked under: an entry for CHIPS,
\* none for VRSC (which falls back to "1440")
ExtractEnvs ==
    { [PATH |-> "/usr/bin", CHIPS_BLOCKS_PER_DAY |-> "8640"] }

\* data_integration.py:36-46 (the blocks_per_day entry; the other two are
\* not read by the extraction)
get_chain_config(chain) ==
    LET key == chain \o "_BLOCKS_PER_DAY"
    IN [blocks_per_day |-> IntOf[IF HasKey(env, key) THEN env[key] ELSE "1440"]]

\* data_integration.py:51-56
bridge_mappings ==
    [n \in {"Bridge.vARRR", "Bridge.vDEX", "Bridge.vCHIPS", "Bridge.CHIPS"} |->
        CASE n = "Bridge.vARRR" -> "VARRR"
          [] n = "Bridge.vDEX" -> "VDEX"
          [] OTHER -> "CHIPS"]

\* data_integration.py:58-62, in the order the dict is iterated
native_mappings ==
    << <<".CHIPS", "CHIPS">>, <<".VARRR", "VARRR">>, <<".VDEX", "VDEX">> >>

\* str.endswith on the converter names of the model
EndsWith(name, suffix) ==
    <<name, suffix>> \in { <<"Highroller.CHIPS", ".CHIPS">>,
                           <<"Bridge.CHIPS", ".CHIPS">> }

\* data_integration.py:48-74
get_chain_for_converter(converter_name) ==
    IF converter_name \in DOMAIN bridge_mappings
    THEN bridge_mappings[converter_name]
    ELSE LET hits == {i \in 1..Len(native_mappings) :
                         EndsWith(converter_name, native_mappings[i][1])}
         IN IF hits # {}
            THEN native_mappings[CHOOSE i \in hits : \A j \in hits : i <= j][2]
            ELSE "VRSC"

\* data_integration.py:252-273
get_converter_currencies(converter) ==
    (IF converter.name # NoValue /\ converter.name # ""
     THEN << [symbol |-> converter.name,
              currency_id |-> IF converter.currency_id = NoValue
                              THEN "" ELSE converter.currency_id] >>
     ELSE <<>>)
    \o [i \in 1..Len(converter.reserve_currencies) |->
           [symbol |-> converter.reserve_currencies[i].ticker,
            currency_id |-> converter.reserve_currencies[i].currency_id]]

RECURSIVE get_currency_id_by_symbol(_, _)
\* data_integration.py:280-285
get_currency_id_by_symbol(currencies, symbol) ==
    IF currencies = <<>> THEN ""
    ELSE IF Head(currencies).symbol = symbol THEN Head(currencies).currency_id
    ELSE get_currency_id_by_symbol(Tail(currencies), symbol)

\* an active converter as the discovery file holds it
ActiveConverter(name, id, chain, rcs) ==
    extract_converter_info(
        TagSourceChain(RawConverter(name, id, 2 * MinLiquidityThreshold, rcs), chain))

\* the contents of converter_discovery.json load_converter_data returns: no
\* converter; a basket of two reserves; a basket of one reserve on CHIPS; two
\* converters on two chains; a converter without reserves and one with
ConverterFiles ==
    LET veth == ActiveConverter("Bridge.vETH", "i3f7tSctFkiPpiedY8QR5Tep9p4qDVebDx",
                    "VRSC", <<Reserve(VrscId, 50, 100), Reserve(DaiId, 50, 100)>>)
        high == ActiveConverter("Highroller.CHIPS", "iNLBYPcNM3c5mzRdtfjd9Hk86WPijQfZhW",
                    "CHIPS", <<Reserve(ChipsId, 100, 100)>>)
        pure == ActiveConverter("Pure", "iHax5qYQGbcMGqJKKrPorpzUBX2oFFXGnY",
                    "VRSC", <<Reserve(VrscId, 100, 100)>>)
        solo == ActiveConverter("Solo", "iExBJfZYK7KREDpuhj6PzZBzqMAKaFg7d2",
                    "VRSC", <<>>)
    IN { <<>>, <<veth>>, <<high>>, <<pure, high>>, <<solo, pure>> }

\* ---- block_height (session of pinned heights) ----
\* a height answer: none (the height query failed), or the height
NoHeight == [ok |-> FALSE, out |-> 0]

\* make_rpc_call(chain, 'getinfo', []) now: a failure, or the live height
HeightAnswers(chain) == {NoHeight, [ok |-> TRUE, out |-> live_height[chain]]}

NoPins == [chain \in {} |-> NoHeight]

NoSession == [id |-> 0, pinned |-> NoPins]

\* a fresh session without any pinned height
start_new_session == [id |-> 1, pinned |-> NoPins]

\* the chain get_session_block_height() is asked for without an argument
DefaultChain == "VRSC"

\* the session after get_session_block_height(chain) got `answer` from the
\* chain: the first answer for a chain is kept for the rest of the session
get_session_block_height(s, chain, answer) ==
    IF chain \in DOMAIN s.pinned THEN s
    ELSE [s EXCEPT !.pinned = (chain :> answer) @@ @]

\* ---- get_currency_volume_info ----
\* data_integration.py:106-127: the getcurrencystate request sent when
\* getinfo answered current_height; from_block and end_block are not read
get_currency_volume_info(currency, from_block, end_block, interval, volume_currency, target_chain, current_height) ==
    LET chain_blocks_per_day == get_chain_config(target_chain).blocks_per_day
        calculated_start_block == current_height - chain_blocks_per_day
        calculated_end_block == current_height
    IN [chain |-> target_chain,
        currency |-> currency,
        start |-> calculated_start_block,
        end |-> calculated_end_block,
        interval |-> chain_blocks_per_day,
        volume_currency |-> volume_currency]

\* the volumes a chain reports for a pair
Volumes == {0, 7}

\* an entry of 'volumepairs'; the prices depend on the lens currency
VolumePair(currency, convertto, volume, price) ==
    [currency |-> currency, convertto |-> convertto, volume |-> volume,
     open |-> price, high |-> price + 2, low |-> price - 1, close |-> price + 1]

\* get_currency_volume_info returned (None, None)
NoVolumeData == [ok |-> FALSE, volume_pairs |-> <<>>]

\* an entry of 'volumepairs' that is no JSON object
NotADict == [text |-> "n/a"]

\* isinstance(pair, dict): only a dict has the method get
IsDict(entry) == "text" \notin DOMAIN entry

\* what get_currency_volume_info returns for one lens currency: nothing, an
\* empty list, a malformed list, or one entry for an ordered pair of the
\* converter's currencies that has the lens currency on one side (no other
\* entry is read)
VolumeAnswers(symbols, lens, price) ==
    {NoVolumeData, [ok |-> TRUE, volume_pairs |-> <<>>],
     [ok |-> TRUE, volume_pairs |-> <<NotADict>>]}
    \cup { [ok |-> TRUE, volume_pairs |-> <<VolumePair(p[1], p[2], v, price)>>] :
             p \in {q \in symbols \X symbols : q[1] # q[2] /\ lens \in {q[1], q[2]}},
             v \in Volumes }

RECURSIVE find_pair_volume(_, _, _)
\* data_integration.py:162-172
find_pair_volume(volume_pairs, from_currency, to_currency) ==
    IF volume_pairs = <<>> THEN 0
    ELSE IF /\ Head(volume_pairs).currency = from_currency
            /\ Head(volume_pairs).convertto = to_currency
         THEN Head(volume_pairs).volume
         ELSE find_pair_volume(Tail(volume_pairs), from_currency, to_currency)

RECURSIVE FindRaises(_, _, _)
\* data_integration.py:167-170, 179-181: pair.get raises AttributeError on
\* an entry that is no dict, if the loop gets to it
FindRaises(volume_pairs, from_currency, to_currency) ==
    IF volume_pairs = <<>> THEN FALSE
    ELSE IF ~IsDict(Head(volume_pairs)) THEN TRUE
    ELSE IF /\ Head(volume_pairs).currency = from_currency
            /\ Head(volume_pairs).convertto = to_currency
         THEN FALSE
         ELSE FindRaises(Tail(volume_pairs), from_currency, to_currency)

NoOhlc == [open |-> 0, high |-> 0, low |-> 0, close |-> 0]

RECURSIVE find_pair_ohlc(_, _, _)
\* data_integration.py:174-189
find_pair_ohlc(volume_pairs, from_currency, to_currency) ==
    IF volume_pairs = <<>> THEN NoOhlc
    ELSE IF /\ Head(volume_pairs).currency = from_currency
            /\ Head(volume_pairs).convertto = to_currency
         THEN [open |-> Head(volume_pairs).open, high |-> Head(volume_pairs).high,
               low |-> Head(volume_pairs).low, close |-> Head(volume_pairs).close]
         ELSE find_pair_ohlc(Tail(volume_pairs), from_currency, to_currency)

\* all_volume_data = {}
NoVolumes == [symbol \in {} |-> <<>>]

\* ---- extract_all_pairs_data ----
\* the test with >= in the place of >
HasVolume_nonnegative(calculated_base_volume, calculated_target_volume) ==
    calculated_base_volume >= 0 \/ calculated_target_volume >= 0

\* data_integration.py:400, the test a pair is included on
HasVolume(calculated_base_volume, calculated_target_volume) ==
    calculated_base_volume > 0 \/ calculated_target_volume > 0

\* price_inversion: the static rule set, keyed by the pair's two currencies
\* (here: the pairs quoted in VRSC)
InversionRule(base_currency, target_currency) == target_currency = "VRSC"

InvertPrice(price) == IF price[1] = 0 THEN price ELSE Frac(price[2], price[1])

\* price_inversion.apply_universal_price_inversion: 1 / price on the price
\* fields of a pair the rule set names, the other fields as they are
apply_universal_price_inversion(pair_data) ==
    IF InversionRule(pair_data.base_currency, pair_data.target_currency)
    THEN [pair_data EXCEPT !.last_price = InvertPrice(@), !.open = InvertPrice(@),
                           !.high = InvertPrice(@), !.low = InvertPrice(@),
                           !.last = InvertPrice(@), !.inverted = TRUE]
    ELSE pair_data

\* data_integration.py:369-384: raw_base_volume, from the base currency's call
RawBaseVolume(base_currency, target_currency, data_of) ==
    IF base_currency \in DOMAIN data_of
    THEN find_pair_volume(data_of[base_currency], base_currency, target_currency)
    ELSE 0

\* data_integration.py:377-384: raw_target_volume, from the target currency's
\* call
RawTargetVolume(base_currency, target_currency, data_of) ==
    IF target_currency \in DOMAIN data_of
    THEN find_pair_volume(data_of[target_currency], base_currency, target_currency)
    ELSE 0

\* the prices read from the base currency's call
OhlcData_base_lens(base_currency, target_currency, data_of) ==
    IF base_currency \in DOMAIN data_of
    THEN find_pair_ohlc(data_of[base_currency], base_currency, target_currency)
    ELSE NoOhlc

\* data_integration.py:386-391: ohlc_data, from the target currency's call
OhlcData(base_currency, target_currency, data_of) ==
    IF target_currency \in DOMAIN data_of
    THEN find_pair_ohlc(data_of[target_currency], base_currency, target_currency)
    ELSE NoOhlc

\* data_integration.py:401-429: pair_data of one (base, target) combination
PairData(converter_name, currencies, base_currency, target_currency, data, data_of, liquidity) ==
    LET ohlc_data == OhlcData(base_currency, target_currency, data_of)
    IN [converter |-> converter_name,
        base_currency |-> base_currency,
        target_currency |-> target_currency,
        base_currency_id |-> get_currency_id_by_symbol(currencies, base_currency),
        target_currency_id |-> get_currency_id_by_symbol(currencies, target_currency),
        base_volume |-> RawBaseVolume(base_currency, target_currency, data_of),
        target_volume |-> RawTargetVolume(base_currency, target_currency, data_of),
        last_price |-> Frac(ohlc_data.close, 1),
        open |-> Frac(ohlc_data.open, 1),
        high |-> Frac(ohlc_data.high, 1),
        low |-> Frac(ohlc_data.low, 1),
        last |-> Frac(ohlc_data.close, 1),
        raw_base_volume |-> RawBaseVolume(base_currency, target_currency, data_of),
        raw_target_volume |-> RawTargetVolume(base_currency, target_currency, data_of),
        pair_liquidity_usd |->
            PairLiquidity(converter_name, base_currency, target_currency, data, liquidity),
        has_volume |-> TRUE,
        inverted |-> FALSE]

RECURSIVE ConverterPairsFrom(_, _, _, _, _)
\* data_integration.py:365-434: the pairs one converter adds to all_pairs
\* from combination k on; combination k has as base the currency at
\* (k - 1) div n + 1 and as target the one at (k - 1) mod n + 1
ConverterPairsFrom(k, converter, data, data_of, liquidity) ==
    LET currencies == get_converter_currencies(converter)
        n == Len(currencies)
    IN IF k > n * n THEN <<>>
       ELSE LET base_currency == currencies[((k - 1) \div n) + 1].symbol
                target_currency == currencies[((k - 1) % n) + 1].symbol
                rest == ConverterPairsFrom(k + 1, converter, data, data_of, liquidity)
            IN IF /\ base_currency # target_currency
                  /\ HasVolume(RawBaseVolume(base_currency, target_currency, data_of),
                               RawTargetVolume(base_currency, target_currency, data_of))
               THEN <<apply_universal_price_inversion(
                          PairData(converter.name, currencies, base_currency,
                                   target_currency, data, data_of, liquidity))>>
                    \o rest
               ELSE rest

\* data_integration.py:365-434, both loops
ConverterPairs(converter, data, data_of, liquidity) ==
    ConverterPairsFrom(1, converter, data, data_of, liquidity)

NoExtraction == [returned |-> FALSE]

\* data_integration.py:312-316, 457-461
ErrorResult(error) ==
    [returned |-> TRUE, success |-> FALSE, error |-> error, pairs |-> <<>>]

\* data_integration.py:436-450
SuccessResult(pairs, session_id, block, total_converters) ==
    [returned |-> TRUE, success |-> TRUE, session_id |-> session_id,
     total_converters |-> total_converters, total_pairs |-> Len(pairs),
     pairs |-> pairs, session_block_height |-> block]

RECURSIVE NextConverter(_, _)
\* data_integration.py:323-342: the first converter from position idx on
\* that is not skipped for having fewer than two currencies
NextConverter(list, idx) ==
    IF idx > Len(list) THEN idx
    ELSE IF Len(get_converter_currencies(list[idx])) < 2
         THEN NextConverter(list, idx + 1)
         ELSE idx

\* data_integration.py:297-342: the call, up to the first volume query
ExtractBegin ==
    /\ epc = "idle"
    /\ \E file \in ConverterFiles, answer \in HeightAnswers(DefaultChain) :
         LET s == get_session_block_height(start_new_session, DefaultChain, answer)
             first == NextConverter(file, 1)
         IN /\ session' = s
            /\ height_at_start' = live_height
            /\ current_block' = s.pinned[DefaultChain]
            /\ converters' = file
            /\ IF file = <<>>
               THEN /\ epc' = "done"
                    /\ extraction' = ErrorResult("No converter data available")
                    /\ converter_idx' = 1
               ELSE IF ~answer.ok
               THEN \* current_block - blocks_per_day raises at line 334
                    /\ epc' = "done"
                    /\ extraction' = ErrorResult("TypeError")
                    /\ converter_idx' = 1
               ELSE IF first > Len(file)
               THEN /\ epc' = "done"
                    /\ extraction' = SuccessResult(<<>>, s.id, answer.out, Len(file))
                    /\ converter_idx' = first
               ELSE /\ epc' = "lens"
                    /\ extraction' = NoExtraction
                    /\ converter_idx' = first
    /\ lens_idx' = 1
    /\ all_volume_data' = NoVolumes
    /\ queries' = <<>>
    /\ all_pairs' = <<>>
    /\ UNCHANGED live_height
    /\ UNCHANGED <<dvars, lvars, avars, rvars, svars, hvars>>

\* the chain goes on while the extraction runs (the chain the next query
\* goes to: no other height is read)
ChainAdvances ==
    /\ epc = "lens"
    /\ \E chain \in {get_chain_for_converter(converters[converter_idx].name)} :
         /\ live_height[chain] < BaseHeight[chain] + MaxAdvance
         /\ live_height' = [live_height EXCEPT ![chain] = @ + 1]
    /\ UNCHANGED <<epc, session, height_at_start, current_block, converters,
                   converter_idx, lens_idx, all_volume_data, queries, all_pairs,
                   extraction>>
    /\ UNCHANGED <<dvars, lvars, avars, rvars, svars, hvars>>

\* data_integration.py:347-362: one pass of the loop over the currencies,
\* the get_currency_volume_info call with its two requests
QueryVolume ==
    /\ epc = "lens"
    /\ LET converter == converters[converter_idx]
           converter_name == converter.name
           currencies == get_converter_currencies(converter)
           symbols == {currencies[i].symbol : i \in 1..Len(currencies)}
           currency_symbol == currencies[lens_idx].symbol
           target_chain == get_chain_for_converter(converter_name)
           blocks_per_day == get_chain_config(target_chain).blocks_per_day
           start_block == current_block.out - blocks_per_day
           end_block == current_block.out
       IN \E info \in HeightAnswers(target_chain),
             answer \in VolumeAnswers(symbols, currency_symbol, 10 * lens_idx) :
            /\ ~info.ok => answer = NoVolumeData
            /\ queries' =
                 IF info.ok
                 THEN Append(queries,
                          get_currency_volume_info(converter_name, start_block, end_block,
                              blocks_per_day, currency_symbol, target_chain, info.out))
                 ELSE queries
            /\ all_volume_data' =
                 IF answer.ok
                 THEN (currency_symbol :> answer.volume_pairs) @@ all_volume_data
                 ELSE all_volume_data
            /\ IF lens_idx < Len(currencies)
               THEN /\ lens_idx' = lens_idx + 1
                    /\ epc' = "lens"
               ELSE /\ lens_idx' = lens_idx
                    /\ epc' = "pairs"
    /\ UNCHANGED <<live_height, session, height_at_start, current_block, converters,
                   converter_idx, all_pairs, extraction>>
    /\ UNCHANGED <<dvars, lvars, avars, rvars, svars, hvars>>

\* data_integration.py:365-391: a find_pair_volume or find_pair_ohlc call of
\* the pair loops raises
PairLoopRaises(converter, data_of) ==
    LET currencies == get_converter_currencies(converter)
        currency_symbols == {currencies[i].symbol : i \in 1..Len(currencies)}
    IN \E q \in {r \in currency_symbols \X currency_symbols : r[1] # r[2]} :
          \/ q[1] \in DOMAIN data_of /\ FindRaises(data_of[q[1]], q[1], q[2])
          \/ q[2] \in DOMAIN data_of /\ FindRaises(data_of[q[2]], q[1], q[2])

\* data_integration.py:365-461: the pairs of the converter, then the next
\* converter or the result; an exception of the pair loops ends the run in
\* the except clause of the function
BuildPairs ==
    /\ epc = "pairs"
    /\ \E liquidity \in {0, 2 * MinLiquidityThreshold} :
         LET next == NextConverter(converters, converter_idx + 1)
         IN IF PairLoopRaises(converters[converter_idx], all_volume_data)
            THEN /\ all_pairs' = all_pairs
                 /\ converter_idx' = converter_idx
                 /\ epc' = "done"
                 /\ extraction' = ErrorResult("AttributeError")
            ELSE
            /\ all_pairs' = all_pairs \o ConverterPairs(converters[converter_idx],
                                           converters, all_volume_data, liquidity)
            /\ converter_idx' = next
            /\ IF next > Len(converters)
               THEN /\ epc' = "done"
                    /\ extraction' = SuccessResult(all_pairs', session.id, current_block.out,
                                                   Len(converters))
               ELSE /\ epc' = "lens"
                    /\ extraction' = NoExtraction
    /\ lens_idx' = 1
    /\ all_volume_data' = NoVolumes
    /\ UNCHANGED <<live_height, session, height_at_start, current_block, converters,
                   queries>>
    /\ UNCHANGED <<dvars, lvars, avars, rvars, svars, hvars>>

ExtractInit ==
    /\ env \in ExtractEnvs
    /\ epc = "idle"
    /\ live_height = BaseHeight
    /\ session = NoSession
    /\ height_at_start = BaseHeight
    /\ current_block = NoHeight
    /\ converters = <<>>
    /\ converter_idx = 1
    /\ lens_idx = 1
    /\ all_volume_data = NoVolumes
    /\ queries = <<>>
    /\ all_pairs = <<>>
    /\ extraction = NoExtraction

ExtractNext ==
    \/ ExtractBegin
    \/ ChainAdvances
    \/ QueryVolume
    \/ BuildPairs

(***************************************************************************)
(* Claims about the extraction                                             *)
(***************************************************************************)
\* C3: every volume/OHLC query of a run uses the block range
\* [H - blocks_per_day, H] of its chain, H being the chain's height when the
\* session started, whatever the chain's height is when the query is sent.
C3_PinnedRange ==
    \A i \in 1..Len(queries) :
        /\ queries[i].end = height_at_start[queries[i].chain]
        /\ queries[i].start = height_at_start[queries[i].chain]
                                - get_chain_config(queries[i].chain).blocks_per_day

\* C10: no pair of the output has base volume 0 and target volume 0, and no
\* pair has its base equal to its target.
C10_OnlyPairsWithVolume ==
    /\ \A i \in 1..Len(all_pairs) :
           /\ all_pairs[i].base_currency # all_pairs[i].target_currency
           /\ ~(all_pairs[i].base_volume = 0 /\ all_pairs[i].target_volume = 0)
    /\ (extraction.returned =>
           \A i \in 1..Len(extraction.pairs) :
              /\ extraction.pairs[i].base_currency # extraction.pairs[i].target_currency
              /\ ~(extraction.pairs[i].base_volume = 0
                     /\ extraction.pairs[i].target_volume = 0))

\* a returned result of a converter with six combinations, of which one with
\* volume on the target side only is in the output and the others are not
C10_Witness ==
    /\ extraction.returned
    /\ extraction.success
    /\ Len(converters) = 1
    /\ Len(get_converter_currencies(converters[1])) = 3
    /\ Len(extraction.pairs) = 1
    /\ extraction.pairs[1].base_volume = 0
    /\ extraction.pairs[1].target_volume > 0

(***************************************************************************)
(* ticker_formatting.py: the three aggregators                             *)
(***************************************************************************)
\* The most pairs of one pairs_data list
MaxPairs == 3

\* Amounts are counted in units of 0.00000001, so a float that prints with
\* eight decimals is a whole number, and any other a quotient of units.
\* f"{x:.8f}" followed by float(): the nearest whole number of units of a
\* quotient x >= 0, a half going to the even neighbour
Format8f(x) ==
    LET floor == x[1] \div x[2]
        twice == 2 * (x[1] % x[2])
    IN IF twice < x[2] THEN floor
       ELSE IF twice > x[2] THEN floor + 1
       ELSE IF floor % 2 = 0 THEN floor ELSE floor + 1

FracPlus(a, b) ==
    IF a[2] = b[2] THEN Frac(a[1] + b[1], a[2])
    ELSE Frac(a[1] * b[2] + b[1] * a[2], a[2] * b[2])

FracTimes(a, b) == Frac(a[1] * b[1], a[2] * b[2])

FracOver(a, b) == Frac(a[1] * b[2], a[2] * b[1])

FracLess(a, b) == a[1] * b[2] < b[1] * a[2]

\* float('inf')
Infinity == <<1, 0>>

\* ---- dict.py ----
\* currency_mappings.json: the eth_symbol and address of the mapped currencies
eth_symbol ==
    [i \in DOMAIN currency_contract_mapping |-> IF i = DaiId THEN "DAI" ELSE "VRSC"]

eth_address ==
    [i \in DOMAIN currency_contract_mapping |->
        IF i = DaiId THEN "0x6B175474E89094C44Da98b954EedeAC495271d0F"
        ELSE "0xBc2738BA63882891094C99E59a02141Ca1A1C36a"]

\* dict.py:92-104 (NoValue for None)
get_mapped_eth_address(currency_id) ==
    IF currency_id \in DOMAIN currency_contract_mapping
    THEN eth_address[currency_id] ELSE NoValue

\* dict.py:166-182: every mapped currency of the model has an address
get_symbol_for_currency(currency_id) ==
    IF currency_id \in DOMAIN currency_contract_mapping
    THEN eth_symbol[currency_id] ELSE NoValue

\* dict.py:193-213
excluded_currency_ids ==
    { "i3f7tSctFkiPpiedY8QR5Tep9p4qDVebDx", "iG1jouaqSJayNb9LCqPzb3yFYD3kUpY2P2",
      "iHnYAmrS45Hb8GVgyzy7nVQtZ5vttJ9N3X", "iFrFn9b6ctse7XBzcWkRbpYMAHoKjbYKqG",
      "i4Xr5TAMrDTD99H69EemhjDxJ4ktNskUtc", "i9kVWKU2VwARALpbXn4RS9zvrhvNRaUibb",
      "iH37kRsdfoHtHK5TottP1Yfq8hBSHz9btw", "iHax5qYQGbcMGqJKKrPorpzUBX2oFFXGnY",
      "iAik7rePReFq2t7LZMZhHCJ52fT5pisJ5C", "iRt7tpLewArQnRddBVFARGKJStK6w5pDmC",
      "i3nokiCTVevZMLpR3VmZ7YDfCqA5juUqqH", "iNLBYPcNM3c5mzRdtfjd9Hk86WPijQfZhW",
      "iDetLA1snrDVhCCk42rdWfqmJcYCMcEFry", "iD5WRg7jdQM1uuoVHsBCAEKfJCKGs1U3TB",
      "i6j1rzjgrDhSmUYiTtp21J8Msiudv5hgt9" }

\* no currency counts as a converter currency
is_converter_currency_unlisted(currency_id) == currency_id \in {}

\* dict.py:215-225
is_converter_currency(currency_id) == currency_id \in excluded_currency_ids

\* ---- ticker_formatting.py ----
\* ticker_formatting.py:156-180
get_erc20_symbol(currency_id, fallback_symbol) ==
    IF currency_id \in DOMAIN currency_contract_mapping
    THEN eth_symbol[currency_id] ELSE fallback_symbol

\* ticker_formatting.py:182-206
should_exclude_pair_alltickers(base_currency_id, target_currency_id, base_symbol, target_symbol) ==
    is_converter_currency(base_currency_id) \/ is_converter_currency(target_currency_id)

\* ---- the pairs_data lists the aggregators are called with ----
\* the currencies of the pairs: two reserve currencies and a basket token
AggCurrencies ==
    [VRSC |-> [symbol |-> "VRSC", currency_id |-> VrscId],
     DAI  |-> [symbol |-> "DAI.vETH", currency_id |-> DaiId],
     VETH |-> [symbol |-> "Bridge.vETH",
               currency_id |-> "i3f7tSctFkiPpiedY8QR5Tep9p4qDVebDx"]]

\* base volume, target volume, last, high, low of a pair, as the extraction
\* builds them: volume under both lenses; volume under the target lens only;
\* an entry of volume 0 under the target lens; no entry under the target lens
Figures ==
    [both_a      |-> <<100, 50, Frac(200, 1), Frac(300, 1), Frac(100, 1)>>,
     both_b      |-> <<50, 25, Frac(400, 1), Frac(500, 1), Frac(300, 1)>>,
     both_c      |-> <<100, 50, Frac(700, 3), Frac(300, 1), Frac(100, 1)>>,
     target_only |-> <<0, 50, Frac(200, 1), Frac(300, 1), Frac(100, 1)>>,
     base_priced |-> <<7, 0, Frac(400, 1), Frac(500, 1), Frac(200, 1)>>,
     base_only   |-> <<7, 0, Zero, Zero, Zero>>]

\* the (base, target, figures) a pair of the lists is made of
PairChoices ==
    ({<<"VRSC", "DAI">>} \X DOMAIN Figures)
    \cup ({<<"DAI", "VRSC">>, <<"VETH", "VRSC">>} \X {"both_a", "both_b"})

\* the converter the pair at a position of the list comes from
ConverterAt == <<"Bridge.vETH", "Pure", "Kaiju", "NATI">>

\* an entry of pairs_data (the fields the aggregators read)
PairEntry(choice, position) ==
    LET base == AggCurrencies[choice[1][1]]
        target == AggCurrencies[choice[1][2]]
        f == Figures[choice[2]]
    IN [converter |-> ConverterAt[position],
        base_currency |-> base.symbol,
        target_currency |-> target.symbol,
        base_currency_id |-> base.currency_id,
        target_currency_id |-> target.currency_id,
        base_volume |-> f[1],
        target_volume |-> f[2],
        last_price |-> f[3],
        last |-> f[3],
        high |-> f[4],
        low |-> f[5]]

PairsDataLists ==
    UNION { { [i \in 1..n |-> PairEntry(c[i], i)] : c \in [1..n -> PairChoices] } :
            n \in 1..MaxPairs }

\* an empty dict of tickers
NoTickers == [key \in {} |-> <<>>]

\* ---- generate_coinpaprika_tickers ----
\* ticker_formatting.py:223-234, the default of pair_aggregation
NewAggregate ==
    [base_volume |-> 0, target_volume |-> 0, price_sum |-> Zero, price_weight |-> 0,
     high_price |-> Zero, low_price |-> Infinity, base_symbol |-> "",
     target_symbol |-> "", count |-> 0, valid_prices |-> FALSE]

\* ticker_formatting.py:251-255
PaprikaKey(pair_data) ==
    get_erc20_symbol(pair_data.base_currency_id, pair_data.base_currency)
        \o "_" \o get_erc20_symbol(pair_data.target_currency_id, pair_data.target_currency)

\* ticker_formatting.py:279-281
EffectivePrice(last_price, high_price, low_price) ==
    IF ~FracLess(Zero, last_price) /\ FracLess(Zero, high_price) /\ FracLess(Zero, low_price)
    THEN FracOver(FracPlus(high_price, low_price), Frac(2, 1))
    ELSE last_price

\* ticker_formatting.py:267-298: one pair added to its aggregate
PaprikaAdd(agg, pair_data) ==
    LET base_erc_symbol == get_erc20_symbol(pair_data.base_currency_id, pair_data.base_currency)
        target_erc_symbol == get_erc20_symbol(pair_data.target_currency_id, pair_data.target_currency)
        effective_price == EffectivePrice(pair_data.last_price, pair_data.high, pair_data.low)
        weight == pair_data.target_volume
        priced == FracLess(Zero, effective_price)
    IN [base_symbol |-> IF agg.base_symbol = "" THEN base_erc_symbol ELSE agg.base_symbol,
        target_symbol |-> IF agg.base_symbol = "" THEN target_erc_symbol ELSE agg.target_symbol,
        base_volume |-> agg.base_volume + pair_data.base_volume,
        target_volume |-> agg.target_volume + pair_data.target_volume,
        price_sum |-> IF priced
                      THEN FracPlus(agg.price_sum, FracTimes(effective_price, Frac(weight, 1)))
                      ELSE agg.price_sum,
        price_weight |-> IF priced THEN agg.price_weight + weight ELSE agg.price_weight,
        valid_prices |-> agg.valid_prices \/ priced,
        high_price |-> IF FracLess(agg.high_price, pair_data.high)
                       THEN pair_data.high ELSE agg.high_price,
        low_price |-> IF ~FracLess(Zero, pair_data.low) THEN agg.low_price
                      ELSE IF agg.low_price = Infinity THEN pair_data.low
                      ELSE IF FracLess(pair_data.low, agg.low_price) THEN pair_data.low
                      ELSE agg.low_price,
        count |-> agg.count + 1]

RECURSIVE PaprikaAggregate(_, _)
\* ticker_formatting.py:239-298: the loop over pairs_data, from the state
\* [keys |-> the keys in the order they were created, data |-> the dict]
PaprikaAggregate(state, pairs) ==
    IF pairs = <<>> THEN state
    ELSE
      LET pair_data == Head(pairs)
          pair_key == PaprikaKey(pair_data)
          known == pair_key \in DOMAIN state.data
          next ==
              IF should_exclude_pair_alltickers(pair_data.base_currency_id,
                     pair_data.target_currency_id, pair_data.base_currency,
                     pair_data.target_currency)
              THEN state
              ELSE IF pair_data.base_volume <= 0 THEN state
              ELSE [keys |-> IF known THEN state.keys ELSE Append(state.keys, pair_key),
                    data |-> (pair_key :> PaprikaAdd(IF known THEN state.data[pair_key]
                                                     ELSE NewAggregate, pair_data))
                             @@ state.data]
      IN PaprikaAggregate(next, Tail(pairs))

\* ticker_formatting.py:303-326
PaprikaTicker(agg) ==
    LET weighted_avg_price ==
            IF agg.price_weight > 0 /\ agg.valid_prices
            THEN FracOver(agg.price_sum, Frac(agg.price_weight, 1))
            ELSE Zero
        low_price == IF agg.low_price = Infinity THEN weighted_avg_price ELSE agg.low_price
    IN [symbol |-> agg.base_symbol \o "-" \o agg.target_symbol,
        volume |-> Format8f(Frac(agg.base_volume, 1)),
        last |-> Format8f(weighted_avg_price),
        high |-> Format8f(agg.high_price),
        low |-> Format8f(low_price),
        open |-> Format8f(agg.high_price)]

RECURSIVE InsertByVolume(_, _)
\* ticker into a list sorted by volume, descending, behind its equals
InsertByVolume(sorted, ticker) ==
    IF sorted = <<>> THEN <<ticker>>
    ELSE IF Head(sorted).volume >= ticker.volume
         THEN <<Head(sorted)>> \o InsertByVolume(Tail(sorted), ticker)
         ELSE <<ticker>> \o sorted

RECURSIVE SortByVolume(_, _)
\* ticker_formatting.py:329: final_tickers.sort(..., reverse=True), a stable sort
SortByVolume(sorted, tickers) ==
    IF tickers = <<>> THEN sorted
    ELSE SortByVolume(InsertByVolume(sorted, Head(tickers)), Tail(tickers))

\* ticker_formatting.py:208-336
generate_coinpaprika_tickers(pairs) ==
    LET state == PaprikaAggregate([keys |-> <<>>, data |-> NoTickers], pairs)
        kept == SelectSeq(state.keys, LAMBDA k : state.data[k].base_volume > 0)
    IN SortByVolume(<<>>, [i \in 1..Len(kept) |-> PaprikaTicker(state.data[kept[i]])])

\* ---- generate_coinmarketcap_enhanced_tickers (live: use_cache False) ----
\* Python's "a or b" for a string or None
OrElse(a, b) == IF a = NoValue \/ a = "" THEN b ELSE a

\* ticker_formatting.py:698-731: the key and the ticker of one pair
format_cmc_enhanced_ticker(pair_data) ==
    LET base_symbol == OrElse(get_symbol_for_currency(pair_data.base_currency_id),
                              pair_data.base_currency)
        target_symbol == OrElse(get_symbol_for_currency(pair_data.target_currency_id),
                                pair_data.target_currency)
        base_id == OrElse(get_mapped_eth_address(pair_data.base_currency_id),
                          OrElse(pair_data.base_currency_id, pair_data.base_currency))
        quote_id == OrElse(get_mapped_eth_address(pair_data.target_currency_id),
                           OrElse(pair_data.target_currency_id, pair_data.target_currency))
    IN [composite_key |-> base_id \o "_" \o quote_id,
        ticker_data |->
            [base_id |-> base_id, base_name |-> base_symbol, base_symbol |-> base_symbol,
             quote_id |-> quote_id, quote_name |-> target_symbol,
             quote_symbol |-> target_symbol,
             last_price |-> Format8f(pair_data.last),
             base_volume |-> Format8f(Frac(pair_data.base_volume, 1)),
             quote_volume |-> Format8f(Frac(pair_data.target_volume, 1))]]

\* ticker_formatting.py:1114-1121 and 392-399: the price of a key after one
\* more contributor
WeightedPrice(existing_price, existing_quote_vol, new_price, new_quote_vol) ==
    IF existing_quote_vol + new_quote_vol > 0
    THEN FracOver(FracPlus(Frac(existing_price * existing_quote_vol, 1),
                           FracTimes(new_price, Frac(new_quote_vol, 1))),
                  Frac(existing_quote_vol + new_quote_vol, 1))
    ELSE new_price

\* ticker_formatting.py:1101-1128 and 379-406: pair_aggregation[key].update(...)
UpdateTicker(existing, new_price, new_base_vol, new_quote_vol) ==
    [existing EXCEPT
        !.last_price = Format8f(WeightedPrice(existing.last_price, existing.quote_volume,
                                              new_price, new_quote_vol)),
        !.base_volume = Format8f(Frac(existing.base_volume + new_base_vol, 1)),
        !.quote_volume = Format8f(Frac(existing.quote_volume + new_quote_vol, 1))]

RECURSIVE CmcAggregate(_, _)
\* ticker_formatting.py:1087-1131: the loop over pairs_data
CmcAggregate(pair_aggregation, pairs) ==
    IF pairs = <<>> THEN pair_aggregation
    ELSE
      LET pair_data == Head(pairs)
          formatted == format_cmc_enhanced_ticker(pair_data)
          composite_key == formatted.composite_key
          ticker_data == formatted.ticker_data
          next ==
              IF \/ is_converter_currency(pair_data.base_currency_id)
                 \/ is_converter_currency(pair_data.target_currency_id)
              THEN pair_aggregation
              ELSE IF composite_key \in DOMAIN pair_aggregation
              THEN (composite_key :>
                       UpdateTicker(pair_aggregation[composite_key],
                                    Frac(ticker_data.last_price, 1),
                                    ticker_data.base_volume, ticker_data.quote_volume))
                   @@ pair_aggregation
              ELSE (composite_key :> ticker_data) @@ pair_aggregation
      IN CmcAggregate(next, Tail(pairs))

\* ticker_formatting.py:1067-1140
generate_coinmarketcap_enhanced_tickers(pairs) == CmcAggregate(NoTickers, pairs)

\* ticker_formatting.py:374-375: "if base_volume <= 0: continue"
SkipsPair(pair_data) == pair_data.base_volume <= 0

RECURSIVE IaddressAggregate(_, _)
\* ticker_formatting.py:351-421: the loop over pairs_data
IaddressAggregate(pair_aggregation, pairs) ==
    IF pairs = <<>> THEN pair_aggregation
    ELSE
      LET pair_data == Head(pairs)
          pair_key == pair_data.base_currency_id \o "_" \o pair_data.target_currency_id
          ticker ==
              [base_id |-> pair_data.base_currency_id,
               base_name |-> pair_data.base_currency,
               base_symbol |-> pair_data.base_currency,
               quote_id |-> pair_data.target_currency_id,
               quote_name |-> pair_data.target_currency,
               quote_symbol |-> pair_data.target_currency,
               last_price |-> Format8f(pair_data.last),
               base_volume |-> Format8f(Frac(pair_data.base_volume, 1)),
               quote_volume |-> Format8f(Frac(pair_data.target_volume, 1))]
          next ==
              IF SkipsPair(pair_data) THEN pair_aggregation
              ELSE IF pair_key \in DOMAIN pair_aggregation
              THEN (pair_key :>
                       UpdateTicker(pair_aggregation[pair_key], pair_data.last,
                                    pair_data.base_volume, pair_data.target_volume))
                   @@ pair_aggregation
              ELSE (pair_key :> ticker) @@ pair_aggregation
      IN IaddressAggregate(next, Tail(pairs))

\* ticker_formatting.py:338-429
aggregate_pairs_for_iaddress_cmc(pairs) == IaddressAggregate(NoTickers, pairs)

\* ticker_formatting.py:431-462
format_iaddress_coinmarketcap_tickers(pairs) ==
    IF pairs = <<>> THEN NoTickers ELSE aggregate_pairs_for_iaddress_cmc(pairs)

\* ---- the endpoints of main.py that aggregate the extracted pairs ----
\* main.py:1091-1120, /coinpaprika_live
GenerateCoinpaprika ==
    /\ called = ""
    /\ called' = "coinpaprika"
    /\ paprika_tickers' = generate_coinpaprika_tickers(pairs_data)
    /\ UNCHANGED <<pairs_data, cmc_tickers, iaddress_tickers>>
    /\ UNCHANGED <<dvars, lvars, evars, rvars, svars, hvars>>

\* main.py:1071-1089, /coinmarketcap_live
GenerateCmcEnhanced ==
    /\ called = ""
    /\ called' = "coinmarketcap"
    /\ cmc_tickers' = generate_coinmarketcap_enhanced_tickers(pairs_data)
    /\ UNCHANGED <<pairs_data, paprika_tickers, iaddress_tickers>>
    /\ UNCHANGED <<dvars, lvars, evars, rvars, svars, hvars>>

\* main.py:1122-1140, /coinmarketcap_iaddress_live
AggregateIaddress ==
    /\ called = ""
    /\ called' = "iaddress"
    /\ iaddress_tickers' = format_iaddress_coinmarketcap_tickers(pairs_data)
    /\ UNCHANGED <<pairs_data, paprika_tickers, cmc_tickers>>
    /\ UNCHANGED <<dvars, lvars, evars, rvars, svars, hvars>>

AggregateNext ==
    \/ GenerateCoinpaprika
    \/ GenerateCmcEnhanced
    \/ AggregateIaddress

\* an endpoint called with the pairs of one extraction
AggregateInit ==
    /\ pairs_data \in PairsDataLists
    /\ called = ""
    /\ paprika_tickers = <<>>
    /\ cmc_tickers = NoTickers
    /\ iaddress_tickers = NoTickers


(***************************************************************************)
(* converter_discovery.json across runs                                    *)
(*   converter_discovery.py: discover_active_converters saves its result   *)
(*   data_integration.py:    load_converter_data reads it back             *)
(***************************************************************************)
MaxRuns == 3

\* converter_discovery.json absent
NoFile == [exists |-> FALSE, written_in |-> 0, active_converters |-> <<>>]

\* converter_discovery.json as the discovery of run r wrote it
DiscoveryFile(r, active) == [exists |-> TRUE, written_in |-> r, active_converters |-> active]

\* load_converter_data not called yet
NoLoad == [in_run |-> 0, converters |-> <<>>, discovered_in |-> 0]

\* what one discover_active_converters call does to the file: it returns the
\* error dict before the save, or the save fails, or the result is written
DiscoveryOutcomes ==
    {[saved |-> FALSE, active_converters |-> <<>>]}
        \cup {[saved |-> TRUE, active_converters |-> active] : active \in ConverterFiles}

\* save_converter_discovery as called from discover_active_converters in run r
save_converter_discovery(file, r, outcome) ==
    IF outcome.saved THEN DiscoveryFile(r, outcome.active_converters) ELSE file

\* load_converter_data in run r: the file as it is when it exists, else one
\* discovery and a second read
load_converter_data(file, r, outcome) ==
    IF file.exists
    THEN [in_run |-> r, converters |-> file.active_converters, discovered_in |-> file.written_in]
    ELSE LET generated == save_converter_discovery(file, r, outcome)
         IN IF generated.exists
            THEN [in_run |-> r, converters |-> generated.active_converters, discovered_in |-> r]
            ELSE [in_run |-> r, converters |-> <<>>, discovered_in |-> r]

\* a run of discovery alone: GET /converters, or the module run as a script
DiscoveryRun ==
    /\ run < MaxRuns
    /\ run' = run + 1
    /\ \E outcome \in DiscoveryOutcomes :
           discovery_file' = save_converter_discovery(discovery_file, run + 1, outcome)
    /\ UNCHANGED loaded
    /\ UNCHANGED <<dvars, lvars, evars, avars, svars, hvars>>

\* a run of extract_all_pairs_data up to data_integration.py:308
ExtractionRun ==
    /\ run < MaxRuns
    /\ run' = run + 1
    /\ \E outcome \in DiscoveryOutcomes :
           /\ loaded' = load_converter_data(discovery_file, run + 1, outcome)
           /\ discovery_file' = IF discovery_file.exists THEN discovery_file
                                ELSE save_converter_discovery(discovery_file, run + 1, outcome)
    /\ UNCHANGED <<dvars, lvars, evars, avars, svars, hvars>>

RunsNext ==
    \/ DiscoveryRun
    \/ ExtractionRun

RunsInit ==
    /\ run = 0
    /\ discovery_file = NoFile
    /\ loaded = NoLoad

(***************************************************************************)
(* verussupply.py: get_vrsc_supply and its response cache                  *)
(***************************************************************************)
MaxClock == 1800

\* the seconds that pass between two calls
Advances == {599, 600}

\* verussupply.py:24
SupplyTtl == 600

\* the sources of the total supply in the order get_vrsc_supply tries them:
\* the external API, then the RPC methods
SupplySources ==
    <<"api.verus.services", "getblockchaininfo", "getcurrency", "coinsupply",
      "coinsupply(height)", "gettxoutsetinfo", "getcurrencystate", "listcurrencies">>

SupplyNotFound == [ok |-> FALSE, out |-> 0]

SupplyFound(amount) == [ok |-> TRUE, out |-> amount]

\* the supply a source reports when it answers with one
ReportedSupply(source) ==
    IF source = "api.verus.services" THEN 80000 ELSE 80001

\* the sets of sources that answer with a supply during one call
AnsweringSources ==
    {{}, {"api.verus.services"}, {"getcurrency", "gettxoutsetinfo"}, {"listcurrencies"}}

SupplyAnswers ==
    {[source \in {SupplySources[i] : i \in 1..Len(SupplySources)} |->
          IF source \in answering THEN SupplyFound(ReportedSupply(source))
          ELSE SupplyNotFound] : answering \in AnsweringSources}

\* converter_discovery.json as get_vrsc_reserves_from_converters reads it:
\* per active converter its reserve_currencies
NoSupplyFile == [exists |-> FALSE, active_converters |-> <<>>]

SupplyReserve(ticker, reserves) == [ticker |-> ticker, reserves |-> reserves]

SupplyFiles ==
    {NoSupplyFile,
     [exists |-> TRUE, active_converters |-> <<>>],
     [exists |-> TRUE,
      active_converters |->
          << <<SupplyReserve("DAI.vETH", 700), SupplyReserve("VRSC", 300)>>,
             <<SupplyReserve("VRSC", 0), SupplyReserve("VRSC", 50)>>,
             <<SupplyReserve("CHIPS", 40)>>,
             <<SupplyReserve("VRSC", 200)>> >>]}

RECURSIVE ConverterVrscReserve(_)
\* verussupply.py:52-64: the first reserve currency with ticker VRSC counts,
\* when its amount is positive
ConverterVrscReserve(reserve_currencies) ==
    IF reserve_currencies = <<>> THEN 0
    ELSE IF Head(reserve_currencies).ticker = "VRSC"
         THEN (IF Head(reserve_currencies).reserves > 0
               THEN Head(reserve_currencies).reserves ELSE 0)
         ELSE ConverterVrscReserve(Tail(reserve_currencies))

RECURSIVE SumVrscReserves(_)
SumVrscReserves(active_converters) ==
    IF active_converters = <<>> THEN 0
    ELSE ConverterVrscReserve(Head(active_converters))
             + SumVrscReserves(Tail(active_converters))

\* total_vrsc_reserves of get_vrsc_reserves_from_converters
get_vrsc_reserves_from_converters(file) ==
    IF ~file.exists THEN 0 ELSE SumVrscReserves(file.active_converters)

\* _supply_response_cache['response'] is None
NoResponse == [present |-> FALSE, total_supply |-> 0, circulating_supply |-> 0, vrsc_in_converters |-> 0, timestamp |-> 0]

\* verussupply.py:20-25
EmptyCache == [response |-> NoResponse, timestamp |-> 0, ttl |-> SupplyTtl]

\* get_vrsc_supply not called yet
NoCall == [called |-> FALSE, at |-> 0, status |-> 0, response |-> NoResponse, asked |-> <<>>, read_file |-> FALSE, from_cache |-> FALSE]

\* the cached response still served when its age equals the ttl
_is_supply_response_cache_valid_at_ttl(cache, current_time) ==
    cache.response.present /\ current_time - cache.timestamp <= cache.ttl

\* verussupply.py:84-88
_is_supply_response_cache_valid(cache, current_time) ==
    cache.response.present /\ current_time - cache.timestamp < cache.ttl

\* verussupply.py:90-94
_update_supply_response_cache(cache, response, current_time) ==
    [cache EXCEPT !.response = response, !.timestamp = current_time]

RECURSIVE AskedSources(_, _)
\* the sources get_vrsc_supply asks, from position i on: each one while
\* total_supply is None
AskedSources(answers, i) ==
    IF i > Len(SupplySources) THEN <<>>
    ELSE IF answers[SupplySources[i]].ok THEN <<SupplySources[i]>>
    ELSE <<SupplySources[i]>> \o AskedSources(answers, i + 1)

\* total_supply after the last source asked (verussupply.py:112-252)
TotalSupply(answers) ==
    LET asked == AskedSources(answers, 1)
    IN IF asked = <<>> THEN SupplyNotFound ELSE answers[asked[Len(asked)]]

\* response_data of verussupply.py:277-294
SupplyResponse(total_supply, vrsc_in_converters, current_time) ==
    [present |-> TRUE,
     total_supply |-> total_supply,
     circulating_supply |-> total_supply - vrsc_in_converters,
     vrsc_in_converters |-> vrsc_in_converters,
     timestamp |-> current_time]

\* verussupply.py:265-268, raised when total_supply is still None
AllMethodsFailed == [status_code |-> 503, detail |-> "Unable to retrieve VRSC total supply from RPC"]

\* verussupply.py:305-310: the except clause around the body of
\* get_vrsc_supply catches every Exception raised in it, an HTTPException
\* too, and raises its own
OuterExcept(e) == [status_code |-> 500, detail |-> "Failed to get VRSC supply information"]

\* one call of get_vrsc_supply; it never awaits, so it runs in one step
GetVrscSupply ==
    /\ \E answers \in SupplyAnswers, file \in SupplyFiles :
           IF _is_supply_response_cache_valid(supply_response_cache, now)
           THEN /\ supply_call' = [called |-> TRUE, at |-> now, status |-> 200,
                                   response |-> supply_response_cache.response,
                                   asked |-> <<>>, read_file |-> FALSE,
                                   from_cache |-> TRUE]
                /\ UNCHANGED supply_response_cache
           ELSE LET total_supply == TotalSupply(answers)
                    response == SupplyResponse(total_supply.out,
                                    get_vrsc_reserves_from_converters(file), now)
                IN IF ~total_supply.ok
                   THEN /\ supply_call' = [called |-> TRUE, at |-> now,
                                           status |-> OuterExcept(AllMethodsFailed).status_code,
                                           response |-> NoResponse,
                                           asked |-> AskedSources(answers, 1),
                                           read_file |-> FALSE, from_cache |-> FALSE]
                        /\ UNCHANGED supply_response_cache
                   ELSE /\ supply_call' = [called |-> TRUE, at |-> now, status |-> 200,
                                           response |-> response,
                                           asked |-> AskedSources(answers, 1),
                                           read_file |-> TRUE, from_cache |-> FALSE]
                        /\ supply_response_cache' =
                               _update_supply_response_cache(supply_response_cache,
                                                              response, now)
    /\ UNCHANGED now
    /\ UNCHANGED <<dvars, lvars, evars, avars, rvars, hvars>>

\* time passes between two calls
SupplyTick ==
    /\ \E seconds \in Advances :
           /\ now + seconds <= MaxClock
           /\ now' = now + seconds
    /\ UNCHANGED <<supply_response_cache, supply_call>>
    /\ UNCHANGED <<dvars, lvars, evars, avars, rvars, hvars>>

SupplyNext ==
    \/ GetVrscSupply
    \/ SupplyTick

SupplyInit ==
    /\ now = 0
    /\ supply_response_cache = EmptyCache
    /\ supply_call = NoCall


(***************************************************************************)
(* converter_discovery.get_native_token_holdings on records of every       *)
(* reserve encoding                                                        *)
(***************************************************************************)
\* get_native_token_holdings not called yet
NotCalled == [ok |-> FALSE, out |-> 0]

\* what a record holds in one encoding: nothing, reserves without the home
\* chain's native currency, or reserves with it
EncodingStates == {"absent", "other", "native"}

HomeChains == {"VRSC", "CHIPS"}

\* the key reserve_currencies of a processed record (ticker field)
StructuredEncoding(state, home) ==
    IF state = "absent" THEN <<>>
    ELSE [reserve_currencies |->
             IF state = "other" THEN <<[ticker |-> "DAI.vETH", reserves |-> 5]>>
             ELSE <<[ticker |-> "DAI.vETH", reserves |-> 5],
                    [ticker |-> home, reserves |-> 11]>>]

\* the key lastnotarization of a raw record (currency identifier)
NotarizedEncoding(state, home) ==
    IF state = "absent" THEN <<>>
    ELSE [lastnotarization |-> [currencystate |-> [reservecurrencies |->
             IF state = "other" THEN <<[currencyid |-> DaiId, reserves |-> 6]>>
             ELSE <<[currencyid |-> DaiId, reserves |-> 6],
                    [currencyid |-> chain_currency_ids[home], reserves |-> 22]>>]]]

\* the key reserves of a raw record of the older format (flat map)
FlatEncoding(state, home) ==
    IF state = "absent" THEN <<>>
    ELSE [reserves |->
             IF state = "other" THEN ("DAI.vETH" :> 7)
             ELSE (home :> 33) @@ ("DAI.vETH" :> 7)]

HoldingsRecord(structured, notarized, flat, home) ==
    StructuredEncoding(structured, home) @@ NotarizedEncoding(notarized, home)
        @@ FlatEncoding(flat, home) @@ [fullyqualifiedname |-> "Pure"]

NoHoldingsRecord == [fullyqualifiedname |-> ""]

HoldingsRecords ==
    {HoldingsRecord(structured, notarized, flat, home) :
        structured \in EncodingStates, notarized \in EncodingStates,
        flat \in EncodingStates, home \in HomeChains}

\* one call of get_native_token_holdings(converter, chain)
GetNativeTokenHoldings ==
    /\ ~native_holdings.ok
    /\ native_holdings' =
           [ok |-> TRUE,
            out |-> get_native_token_holdings(holdings_converter, holdings_chain)]
    /\ UNCHANGED <<holdings_converter, holdings_chain>>
    /\ UNCHANGED <<dvars, lvars, evars, avars, rvars, svars>>

HoldingsNext ==
    \/ GetNativeTokenHoldings

HoldingsInit ==
    /\ holdings_converter \in HoldingsRecords
    /\ holdings_chain \in HomeChains
    /\ native_holdings = NotCalled


(***************************************************************************)
(* Specifications                                                          *)
(***************************************************************************)
vars == <<dvars, lvars, evars, avars, rvars, svars, hvars>>

\* discovery under every environment, the calculator not called
InitDiscovery ==
    /\ DiscoveryInit
    /\ arg_name = UnknownName
    /\ arg_data = <<>>
    /\ lpc = "idle"
    /\ native_ratio = NotAsked
    /\ chain_to_vrsc_rate = NotAsked
    /\ vrsc_usd_price = NotAsked
    /\ requests = <<>>
    /\ total_liquidity = 0
    /\ pair = NoPair
    /\ epc = "idle"
    /\ live_height = BaseHeight
    /\ session = NoSession
    /\ height_at_start = BaseHeight
    /\ current_block = NoHeight
    /\ converters = <<>>
    /\ converter_idx = 1
    /\ lens_idx = 1
    /\ all_volume_data = NoVolumes
    /\ queries = <<>>
    /\ all_pairs = <<>>
    /\ extraction = NoExtraction
    /\ pairs_data = <<>>
    /\ called = ""
    /\ paprika_tickers = <<>>
    /\ cmc_tickers = NoTickers
    /\ iaddress_tickers = NoTickers
    /\ run = 0
    /\ discovery_file = NoFile
    /\ loaded = NoLoad
    /\ now = 0
    /\ supply_response_cache = EmptyCache
    /\ supply_call = NoCall
    /\ holdings_converter = NoHoldingsRecord
    /\ holdings_chain = "VRSC"
    /\ native_holdings = NotCalled

SpecDiscovery == InitDiscovery /\ [][DiscoveryNext]_vars

\* the calculator called on the converters of LiquidityConverters, no
\* discovery running
InitLiquidity ==
    /\ LiquidityInit
    /\ env = [PATH |-> "/usr/bin"]
    /\ chains = <<>>
    /\ dpc = "idle"
    /\ chainIdx = 1
    /\ all_raw_converters = <<>>
    /\ chain_results = <<>>
    /\ fetched = <<>>
    /\ discovery = NoResult
    /\ epc = "idle"
    /\ live_height = BaseHeight
    /\ session = NoSession
    /\ height_at_start = BaseHeight
    /\ current_block = NoHeight
    /\ converters = <<>>
    /\ converter_idx = 1
    /\ lens_idx = 1
    /\ all_volume_data = NoVolumes
    /\ queries = <<>>
    /\ all_pairs = <<>>
    /\ extraction = NoExtraction
    /\ pairs_data = <<>>
    /\ called = ""
    /\ paprika_tickers = <<>>
    /\ cmc_tickers = NoTickers
    /\ iaddress_tickers = NoTickers
    /\ run = 0
    /\ discovery_file = NoFile
    /\ loaded = NoLoad
    /\ now = 0
    /\ supply_response_cache = EmptyCache
    /\ supply_call = NoCall
    /\ holdings_converter = NoHoldingsRecord
    /\ holdings_chain = "VRSC"
    /\ native_holdings = NotCalled

SpecLiquidity == InitLiquidity /\ [][LiquidityNext]_vars

\* the extraction called once, no discovery and no liquidity call running
\* beside it
InitExtract ==
    /\ ExtractInit
    /\ chains = <<>>
    /\ dpc = "idle"
    /\ chainIdx = 1
    /\ all_raw_converters = <<>>
    /\ chain_results = <<>>
    /\ fetched = <<>>
    /\ discovery = NoResult
    /\ arg_name = UnknownName
    /\ arg_data = <<>>
    /\ lpc = "idle"
    /\ native_ratio = NotAsked
    /\ chain_to_vrsc_rate = NotAsked
    /\ vrsc_usd_price = NotAsked
    /\ requests = <<>>
    /\ total_liquidity = 0
    /\ pair = NoPair
    /\ pairs_data = <<>>
    /\ called = ""
    /\ paprika_tickers = <<>>
    /\ cmc_tickers = NoTickers
    /\ iaddress_tickers = NoTickers
    /\ run = 0
    /\ discovery_file = NoFile
    /\ loaded = NoLoad
    /\ now = 0
    /\ supply_response_cache = EmptyCache
    /\ supply_call = NoCall
    /\ holdings_converter = NoHoldingsRecord
    /\ holdings_chain = "VRSC"
    /\ native_holdings = NotCalled

SpecExtract == InitExtract /\ [][ExtractNext]_vars

\* one aggregating endpoint called on a list of extracted pairs, nothing else
\* running
InitAggregate ==
    /\ AggregateInit
    /\ env = [PATH |-> "/usr/bin"]
    /\ chains = <<>>
    /\ dpc = "idle"
    /\ chainIdx = 1
    /\ all_raw_converters = <<>>
    /\ chain_results = <<>>
    /\ fetched = <<>>
    /\ discovery = NoResult
    /\ arg_name = UnknownName
    /\ arg_data = <<>>
    /\ lpc = "idle"
    /\ native_ratio = NotAsked
    /\ chain_to_vrsc_rate = NotAsked
    /\ vrsc_usd_price = NotAsked
    /\ requests = <<>>
    /\ total_liquidity = 0
    /\ pair = NoPair
    /\ epc = "idle"
    /\ live_height = BaseHeight
    /\ session = NoSession
    /\ height_at_start = BaseHeight
    /\ current_block = NoHeight
    /\ converters = <<>>
    /\ converter_idx = 1
    /\ lens_idx = 1
    /\ all_volume_data = NoVolumes
    /\ queries = <<>>
    /\ all_pairs = <<>>
    /\ extraction = NoExtraction
    /\ run = 0
    /\ discovery_file = NoFile
    /\ loaded = NoLoad
    /\ now = 0
    /\ supply_response_cache = EmptyCache
    /\ supply_call = NoCall
    /\ holdings_converter = NoHoldingsRecord
    /\ holdings_chain = "VRSC"
    /\ native_holdings = NotCalled

SpecAggregate == InitAggregate /\ [][AggregateNext]_vars

\* discovery and extraction runs one after the other, sharing
\* converter_discovery.json
InitRuns ==
    /\ RunsInit
    /\ env = [PATH |-> "/usr/bin"]
    /\ chains = <<>>
    /\ dpc = "idle"
    /\ chainIdx = 1
    /\ all_raw_converters = <<>>
    /\ chain_results = <<>>
    /\ fetched = <<>>
    /\ discovery = NoResult
    /\ arg_name = UnknownName
    /\ arg_data = <<>>
    /\ lpc = "idle"
    /\ native_ratio = NotAsked
    /\ chain_to_vrsc_rate = NotAsked
    /\ vrsc_usd_price = NotAsked
    /\ requests = <<>>
    /\ total_liquidity = 0
    /\ pair = NoPair
    /\ epc = "idle"
    /\ live_height = BaseHeight
    /\ session = NoSession
    /\ height_at_start = BaseHeight
    /\ current_block = NoHeight
    /\ converters = <<>>
    /\ converter_idx = 1
    /\ lens_idx = 1
    /\ all_volume_data = NoVolumes
    /\ queries = <<>>
    /\ all_pairs = <<>>
    /\ extraction = NoExtraction
    /\ pairs_data = <<>>
    /\ called = ""
    /\ paprika_tickers = <<>>
    /\ cmc_tickers = NoTickers
    /\ iaddress_tickers = NoTickers
    /\ now = 0
    /\ supply_response_cache = EmptyCache
    /\ supply_call = NoCall
    /\ holdings_converter = NoHoldingsRecord
    /\ holdings_chain = "VRSC"
    /\ native_holdings = NotCalled

SpecRuns == InitRuns /\ [][RunsNext]_vars

\* calls of get_vrsc_supply as time passes
InitSupply ==
    /\ SupplyInit
    /\ env = [PATH |-> "/usr/bin"]
    /\ chains = <<>>
    /\ dpc = "idle"
    /\ chainIdx = 1
    /\ all_raw_converters = <<>>
    /\ chain_results = <<>>
    /\ fetched = <<>>
    /\ discovery = NoResult
    /\ arg_name = UnknownName
    /\ arg_data = <<>>
    /\ lpc = "idle"
    /\ native_ratio = NotAsked
    /\ chain_to_vrsc_rate = NotAsked
    /\ vrsc_usd_price = NotAsked
    /\ requests = <<>>
    /\ total_liquidity = 0
    /\ pair = NoPair
    /\ epc = "idle"
    /\ live_height = BaseHeight
    /\ session = NoSession
    /\ height_at_start = BaseHeight
    /\ current_block = NoHeight
    /\ converters = <<>>
    /\ converter_idx = 1
    /\ lens_idx = 1
    /\ all_volume_data = NoVolumes
    /\ queries = <<>>
    /\ all_pairs = <<>>
    /\ extraction = NoExtraction
    /\ pairs_data = <<>>
    /\ called = ""
    /\ paprika_tickers = <<>>
    /\ cmc_tickers = NoTickers
    /\ iaddress_tickers = NoTickers
    /\ run = 0
    /\ discovery_file = NoFile
    /\ loaded = NoLoad
    /\ holdings_converter = NoHoldingsRecord
    /\ holdings_chain = "VRSC"
    /\ native_holdings = NotCalled

SpecSupply == InitSupply /\ [][SupplyNext]_vars

\* get_native_token_holdings called on one record of HoldingsRecords
InitHoldings ==
    /\ HoldingsInit
    /\ env = [PATH |-> "/usr/bin"]
    /\ chains = <<>>
    /\ dpc = "idle"
    /\ chainIdx = 1
    /\ all_raw_converters = <<>>
    /\ chain_results = <<>>
    /\ fetched = <<>>
    /\ discovery = NoResult
    /\ arg_name = UnknownName
    /\ arg_data = <<>>
    /\ lpc = "idle"
    /\ native_ratio = NotAsked
    /\ chain_to_vrsc_rate = NotAsked
    /\ vrsc_usd_price = NotAsked
    /\ requests = <<>>
    /\ total_liquidity = 0
    /\ pair = NoPair
    /\ epc = "idle"
    /\ live_height = BaseHeight
    /\ session = NoSession
    /\ height_at_start = BaseHeight
    /\ current_block = NoHeight
    /\ converters = <<>>
    /\ converter_idx = 1
    /\ lens_idx = 1
    /\ all_volume_data = NoVolumes
    /\ queries = <<>>
    /\ all_pairs = <<>>
    /\ extraction = NoExtraction
    /\ pairs_data = <<>>
    /\ called = ""
    /\ paprika_tickers = <<>>
    /\ cmc_tickers = NoTickers
    /\ iaddress_tickers = NoTickers
    /\ run = 0
    /\ discovery_file = NoFile
    /\ loaded = NoLoad
    /\ now = 0
    /\ supply_response_cache = EmptyCache
    /\ supply_call = NoCall

SpecHoldings == InitHoldings /\ [][HoldingsNext]_vars

(***************************************************************************)
(* Claims about the steps of the extraction                                *)
(***************************************************************************)
\* the (base -> target) entries of the answer kept for a lens currency
LensEntries(lens, base, target) ==
    IF lens \in DOMAIN all_volume_data
    THEN {all_volume_data[lens][i] :
            i \in {j \in 1..Len(all_volume_data[lens]) :
                     /\ all_volume_data[lens][j].currency = base
                     /\ all_volume_data[lens][j].convertto = target}}
    ELSE {}

\* a figure of that entry, 0 without a lens answer or without an entry
LensFigure(lens, base, target, field) ==
    IF LensEntries(lens, base, target) = {} THEN 0
    ELSE (CHOOSE e \in LensEntries(lens, base, target) : TRUE)[field]

\* a price of a pair as the chain reported it
Reported(p, price) == IF p.inverted THEN InvertPrice(price) ELSE price

\* C11: every pair a converter adds has as base volume the (base -> target)
\* entry of the base currency's query, as target volume and as open, high,
\* low, close the (base -> target) entry of the target currency's query, and
\* 0 for a figure whose query or entry is missing.
C11_TwoLens ==
    [][epc = "pairs" =>
         \A i \in (Len(all_pairs) + 1)..Len(all_pairs') :
            LET p == all_pairs'[i]
                b == p.base_currency
                t == p.target_currency
            IN /\ p.base_volume = LensFigure(b, b, t, "volume")
               /\ p.target_volume = LensFigure(t, b, t, "volume")
               /\ Reported(p, p.open) = Frac(LensFigure(t, b, t, "open"), 1)
               /\ Reported(p, p.high) = Frac(LensFigure(t, b, t, "high"), 1)
               /\ Reported(p, p.low) = Frac(LensFigure(t, b, t, "low"), 1)
               /\ Reported(p, p.last) = Frac(LensFigure(t, b, t, "close"), 1)
               /\ p.last_price = p.last]_vars

\* a result with one pair that has an entry under both lenses, and one pair
\* with an entry under the base lens only
C11_Witness ==
    /\ extraction.returned
    /\ extraction.success
    /\ \E i \in 1..Len(all_pairs) :
           /\ all_pairs[i].base_volume > 0
           /\ all_pairs[i].target_volume > 0
           /\ all_pairs[i].last # Zero
    /\ \E i \in 1..Len(all_pairs) :
           /\ all_pairs[i].base_volume > 0
           /\ all_pairs[i].target_volume = 0
           /\ all_pairs[i].last = Zero

(***************************************************************************)
(* Claims about the aggregators                                            *)
(***************************************************************************)
\* the pair is one the filter of coinpaprika and coinmarketcap leaves out
Excluded(p) ==
    \/ p.base_currency_id \in excluded_currency_ids
    \/ p.target_currency_id \in excluded_currency_ids

\* two pairs of one directed (base, target) key
SameKey(p, q) ==
    /\ p.base_currency_id = q.base_currency_id
    /\ p.target_currency_id = q.target_currency_id

\* the positions of pairs_data that hold a pair of the key of p
Contributors(p) == {i \in 1..Len(pairs_data) : SameKey(pairs_data[i], p)}

RECURSIVE VolumeSum(_, _)
\* the sum of a volume over a set of positions of pairs_data
VolumeSum(positions, field) ==
    IF positions = {} THEN 0
    ELSE LET i == CHOOSE j \in positions : TRUE
         IN pairs_data[i][field] + VolumeSum(positions \ {i}, field)

\* the name or key under which an aggregator files the pair
PaprikaSymbol(p) ==
    get_erc20_symbol(p.base_currency_id, p.base_currency)
        \o "-" \o get_erc20_symbol(p.target_currency_id, p.target_currency)

CmcKey(p) == format_cmc_enhanced_ticker(p).composite_key

IaddressKey(p) == p.base_currency_id \o "_" \o p.target_currency_id

\* the tickers of coinpaprika filed under the name of the pair
PaprikaRecords(p) ==
    {i \in 1..Len(paprika_tickers) : paprika_tickers[i].symbol = PaprikaSymbol(p)}

\* C12: every aggregator keeps one record per directed (base, target) key,
\* A->B apart from B->A, and the base volume and the target volume of a record
\* are the sums of the base and target volumes of all the input pairs of its
\* key (coinpaprika publishes the base volume only)
C12_VolumesSummed ==
    \A i \in 1..Len(pairs_data) :
        LET p == pairs_data[i]
            base_sum == VolumeSum(Contributors(p), "base_volume")
            target_sum == VolumeSum(Contributors(p), "target_volume")
        IN /\ called = "coinpaprika" =>
                /\ Cardinality(PaprikaRecords(p)) <= 1
                /\ \A t \in PaprikaRecords(p) : paprika_tickers[t].volume = base_sum
           /\ called = "coinmarketcap" /\ CmcKey(p) \in DOMAIN cmc_tickers =>
                /\ cmc_tickers[CmcKey(p)].base_volume = base_sum
                /\ cmc_tickers[CmcKey(p)].quote_volume = target_sum
           /\ called = "iaddress" /\ IaddressKey(p) \in DOMAIN iaddress_tickers =>
                /\ iaddress_tickers[IaddressKey(p)].base_volume = base_sum
                /\ iaddress_tickers[IaddressKey(p)].quote_volume = target_sum

RECURSIVE PriceVolumeSum(_)
\* the sum of price x target volume over a set of positions of pairs_data
PriceVolumeSum(positions) ==
    IF positions = {} THEN Zero
    ELSE LET i == CHOOSE j \in positions : TRUE
         IN FracPlus(FracTimes(pairs_data[i].last, Frac(pairs_data[i].target_volume, 1)),
                     PriceVolumeSum(positions \ {i}))

\* a published price is the quotient, up to the rounding to eight decimals
\* that each of the n contributors can add
PriceIs(price, quotient, n) ==
    /\ (price - n) * quotient[2] <= quotient[1]
    /\ quotient[1] <= (price + n) * quotient[2]

\* the average of the prices of the key of p, weighted by target volume
WeightedAverage(p) ==
    FracOver(PriceVolumeSum(Contributors(p)),
             Frac(VolumeSum(Contributors(p), "target_volume"), 1))

\* C13: the price of a key whose pairs have a positive total target volume is
\* the average of the pairs' prices weighted by their target volumes, for any
\* number of pairs of the key
C13_WeightedAverage ==
    \A i \in 1..Len(pairs_data) :
        LET p == pairs_data[i]
            n == Cardinality(Contributors(p))
        IN VolumeSum(Contributors(p), "target_volume") > 0 =>
            /\ called = "coinpaprika" =>
                 \A t \in PaprikaRecords(p) :
                     PriceIs(paprika_tickers[t].last, WeightedAverage(p), n)
            /\ called = "coinmarketcap" /\ CmcKey(p) \in DOMAIN cmc_tickers =>
                 PriceIs(cmc_tickers[CmcKey(p)].last_price, WeightedAverage(p), n)
            /\ called = "iaddress" /\ IaddressKey(p) \in DOMAIN iaddress_tickers =>
                 PriceIs(iaddress_tickers[IaddressKey(p)].last_price, WeightedAverage(p), n)

\* the highest high and the positive lows of the pairs of the key of p
KeyHigh(p) ==
    LET highs == {pairs_data[i].high : i \in Contributors(p)}
    IN CHOOSE h \in highs : \A g \in highs : ~FracLess(h, g)

KeyLows(p) == {q \in {pairs_data[i].low : i \in Contributors(p)} : FracLess(Zero, q)}

KeyLow(p) == CHOOSE l \in KeyLows(p) : \A g \in KeyLows(p) : ~FracLess(g, l)

\* the price of a key without weight: the midpoint of high and low, or 0
Fallback(p) ==
    IF FracLess(Zero, KeyHigh(p)) /\ KeyLows(p) # {}
    THEN FracOver(FracPlus(KeyHigh(p), KeyLow(p)), Frac(2, 1))
    ELSE Zero

\* C14: the price of a key of several pairs whose total target volume is 0 is
\* the midpoint (high + low) / 2 when a high and a low are there, and 0 otherwise,
\* never the price of one of the pairs
C14_ZeroWeightFallback ==
    \A i \in 1..Len(pairs_data) :
        LET p == pairs_data[i]
        IN /\ Cardinality(Contributors(p)) >= 2
           /\ VolumeSum(Contributors(p), "target_volume") = 0
           =>
            /\ called = "coinpaprika" =>
                 \A t \in PaprikaRecords(p) :
                     PriceIs(paprika_tickers[t].last, Fallback(p), 1)
            /\ called = "coinmarketcap" /\ CmcKey(p) \in DOMAIN cmc_tickers =>
                 PriceIs(cmc_tickers[CmcKey(p)].last_price, Fallback(p), 1)
            /\ called = "iaddress" /\ IaddressKey(p) \in DOMAIN iaddress_tickers =>
                 PriceIs(iaddress_tickers[IaddressKey(p)].last_price, Fallback(p), 1)

\* the key of p has exactly two pairs, and they have the same target volume
TwoOfEqualWeight(p) ==
    /\ Cardinality(Contributors(p)) = 2
    /\ \A i, j \in Contributors(p) : pairs_data[i].target_volume = pairs_data[j].target_volume

RECURSIVE PriceSum(_)
\* the sum of the prices over a set of positions of pairs_data
PriceSum(positions) ==
    IF positions = {} THEN Zero
    ELSE LET i == CHOOSE j \in positions : TRUE
         IN FracPlus(pairs_data[i].last, PriceSum(positions \ {i}))

\* the arithmetic mean of the prices of the pairs of the key of p
Mean(p) == FracOver(PriceSum(Contributors(p)), Frac(Cardinality(Contributors(p)), 1))

\* C15: in every aggregator the price of a key of exactly two pairs of equal
\* target volume is the arithmetic mean of the two prices
C15_EqualWeightMean ==
    \A i \in 1..Len(pairs_data) :
        LET p == pairs_data[i]
        IN TwoOfEqualWeight(p) =>
            /\ called = "coinpaprika" =>
                 \A t \in PaprikaRecords(p) : PriceIs(paprika_tickers[t].last, Mean(p), 2)
            /\ called = "coinmarketcap" /\ CmcKey(p) \in DOMAIN cmc_tickers =>
                 PriceIs(cmc_tickers[CmcKey(p)].last_price, Mean(p), 2)
            /\ called = "iaddress" /\ IaddressKey(p) \in DOMAIN iaddress_tickers =>
                 PriceIs(iaddress_tickers[IaddressKey(p)].last_price, Mean(p), 2)

\* C16: a pair that is the only one of its key comes back unchanged from every
\* aggregator: one record with the pair's base volume, target volume and price
\* (coinpaprika publishes no target volume)
C16_SingleEntryUnchanged ==
    \A i \in 1..Len(pairs_data) :
        LET p == pairs_data[i]
        IN Cardinality(Contributors(p)) = 1 /\ ~Excluded(p) =>
            /\ called = "coinpaprika" =>
                 /\ Cardinality(PaprikaRecords(p)) = 1
                 /\ \A t \in PaprikaRecords(p) :
                        /\ paprika_tickers[t].volume = p.base_volume
                        /\ PriceIs(paprika_tickers[t].last, p.last, 1)
            /\ called = "coinmarketcap" =>
                 /\ CmcKey(p) \in DOMAIN cmc_tickers
                 /\ cmc_tickers[CmcKey(p)].base_volume = p.base_volume
                 /\ cmc_tickers[CmcKey(p)].quote_volume = p.target_volume
                 /\ PriceIs(cmc_tickers[CmcKey(p)].last_price, p.last, 1)
            /\ called = "iaddress" =>
                 /\ IaddressKey(p) \in DOMAIN iaddress_tickers
                 /\ iaddress_tickers[IaddressKey(p)].base_volume = p.base_volume
                 /\ iaddress_tickers[IaddressKey(p)].quote_volume = p.target_volume
                 /\ PriceIs(iaddress_tickers[IaddressKey(p)].last_price, p.last, 1)

\* pairs_data without the pairs that touch an excluded identifier
Unexcluded == SelectSeq(pairs_data, LAMBDA q : ~Excluded(q))

C18_ErrorOnlyWhenAllFail ==
    discovery.returned =>
        /\ discovery.has_error => DOMAIN fetched = {}
        /\ \A i \in 1..Len(chains) :
               /\ chains[i] \in DOMAIN chain_results
               /\ chains[i] \notin DOMAIN fetched => chain_results[chains[i]].count = 0

\* the name marks a bridge the home-chain table does not know
UnknownBridge(name) == IsBridgeName(name) /\ name \notin DOMAIN bridge_converter_chains

\* C19: a converter named 'Bridge.' + something the home-chain table lacks is
\* excluded from no chain: every chain that reports it keeps it after the
\* bridge filter, like a native converter
C19_UnknownBridgeRetained ==
    \A chain \in DOMAIN fetched :
        \A i \in 1..Len(fetched[chain]) :
            UnknownBridge(NameOf(fetched[chain][i])) =>
                \E k \in 1..Len(chain_results[chain].converters) :
                    NameOf(chain_results[chain].converters[k]) = NameOf(fetched[chain][i])

(***************************************************************************)
(* Claims about the failures of the extraction                             *)
(***************************************************************************)
\* C20: a failed or malformed volume/OHLC or liquidity answer for one
\* converter or one currency costs only that item's figures: a run that has
\* converters and a pinned height ends without a top-level error, with the
\* pairs of all its converters
C20_FailuresStayLocal ==
    extraction.returned /\ converters # <<>> /\ current_block.ok =>
        /\ extraction.success
        /\ extraction.pairs = all_pairs

(***************************************************************************)
(* Claims about the session of a run                                       *)
(***************************************************************************)
\* C21: the session extract_all_pairs_data started is ended when the run
\* ends, on every path: once the function has returned, no pinned height of
\* the session remains
C21_SessionEnded ==
    extraction.returned =>
        \A chain \in DOMAIN session.pinned : ~session.pinned[chain].ok

(***************************************************************************)
(* Claims about the converter list of a run                                *)
(***************************************************************************)
\* C22: the converter list an extraction run processes was discovered within
\* that same run, never by an earlier one
C22_FreshConverters ==
    loaded.in_run > 0 => loaded.discovered_in = loaded.in_run

(***************************************************************************)
(* Claims about the native holdings of a record                            *)
(***************************************************************************)
\* the record holds the chain's native currency in its structured reserve
\* list
StructuredHas(converter, chain) ==
    /\ HasKey(converter, "reserve_currencies")
    /\ \E i \in 1..Len(converter.reserve_currencies) :
           converter.reserve_currencies[i].ticker = chain

NotarizedReserves(converter) ==
    converter.lastnotarization.currencystate.reservecurrencies

\* ... in its raw notarization structure
NotarizedHas(converter, chain) ==
    /\ HasKey(converter, "lastnotarization")
    /\ \E i \in 1..Len(NotarizedReserves(converter)) :
           NotarizedReserves(converter)[i].currencyid = chain_currency_ids[chain]

\* ... in its flat reserves map
FlatHas(converter, chain) ==
    HasKey(converter, "reserves") /\ HasKey(converter.reserves, chain)

\* the native amount of the first encoding, in the order structured list,
\* notarization structure, flat map, that contains the native currency
FirstEncodingWithNative(converter, chain) ==
    IF StructuredHas(converter, chain)
    THEN FirstReserves(converter.reserve_currencies, "ticker", chain)[2]
    ELSE IF NotarizedHas(converter, chain)
    THEN FirstReserves(NotarizedReserves(converter), "currencyid",
                       chain_currency_ids[chain])[2]
    ELSE IF FlatHas(converter, chain) THEN converter.reserves[chain]
    ELSE 0

\* C23: get_native_token_holdings returns the native amount of the first of
\* the three encodings, in their fixed order, that contains the chain's
\* native currency, and 0 when none contains it
C23_FirstEncodingWithNative ==
    native_holdings.ok =>
        native_holdings.out = FirstEncodingWithNative(holdings_converter, holdings_chain)

(***************************************************************************)
(* Claims about the order of the liquidity hops                            *)
(***************************************************************************)
\* the answer carries a rate above 0
PositiveRate(answer) == answer.ok /\ answer.out > 0

\* C24: within one get_converter_liquidity call the hops are requested in
\* order, each at most once, and no hop is requested after an earlier one
\* failed or answered with a rate <= 0
C24_HopsInOrder ==
    LET info == FindConverter(arg_data, arg_name)[2]
        n == Len(requests)
    IN /\ n <= 3
       /\ \A i, j \in 1..n : i # j => requests[i] # requests[j]
       /\ n >= 1 => requests[1] = Hop1Request(info)
       /\ n >= 2 =>
              /\ PositiveRate(native_ratio)
              /\ requests[2] = IF info.source_chain = "VRSC" THEN VrscUsdRequest
                               ELSE ChainToVrscRequest(info.source_chain)
       /\ n = 3 =>
              /\ info.source_chain # "VRSC"
              /\ PositiveRate(chain_to_vrsc_rate)
              /\ requests[3] = VrscUsdRequest

\* a call on a converter of another chain that ended after the chain -> VRSC
\* hop answered with no positive rate
C24_Witness ==
    /\ lpc = "done"
    /\ Len(requests) = 2
    /\ requests[2] # VrscUsdRequest
    /\ PositiveRate(native_ratio)
    /\ ~PositiveRate(chain_to_vrsc_rate)

(***************************************************************************)
(* Claims about malformed records in discovery                             *)
(***************************************************************************)
\* some chain answered with a record whose fullyqualifiedname is no string
MalformedReported ==
    \E chain \in DOMAIN fetched :
        \E i \in 1..Len(fetched[chain]) : NameOf(fetched[chain][i]) = NonString

\* C25: a malformed record affects only itself and is excluded: with one
\* reported, still no bridge of the home-chain table is active on another
\* chain and no converter below its chain's minimum is active
C25_MalformedStaysLocal ==
    (discovery.returned /\ ~discovery.has_error /\ MalformedReported) =>
        \A i \in 1..Len(discovery.active_converters) :
            LET a == discovery.active_converters[i]
                name == NameOf(a.raw_data)
            IN /\ name # NonString
               /\ name \in DOMAIN bridge_converter_chains
                      => a.source_chain = bridge_converter_chains[name]
               /\ HeldNative(a.raw_data, a.source_chain)
                      >= MinNativeTokensIn(env, a.source_chain)

(***************************************************************************)
(* Claims about the chain a converter is queried on                        *)
(***************************************************************************)
\* C26: for every active converter the chain get_chain_for_converter picks
\* from its name, on which the extraction queries it and whose window length
\* it uses, is the source_chain discovery recorded
C26_QueriedOnSourceChain ==
    discovery.returned =>
        \A i \in 1..Len(discovery.active_converters) :
            LET a == discovery.active_converters[i]
            IN a.name # NonString
                   => get_chain_for_converter(a.name) = a.source_chain

(***************************************************************************)
(* Claims about the counts of a discovery result                           *)
(***************************************************************************)
RECURSIVE SumOver(_, _)
\* the sum of f[x] over the elements x of the set
SumOver(f, set) ==
    IF set = {} THEN 0
    ELSE LET x == CHOOSE y \in set : TRUE
         IN f[x] + SumOver(f, set \ {x})

\* active + excluded = total = the sum of the per-chain counts
CountsAddUp ==
    /\ discovery.active_count + discovery.excluded_count = discovery.total_count
    /\ discovery.total_count =
           SumOver([chain \in DOMAIN discovery.chains |-> discovery.chains[chain].count],
                   DOMAIN discovery.chains)

\* per chain, bridge_filtered = total_found - count >= 0
BridgeFilteredCounts ==
    \A chain \in DOMAIN discovery.chains :
        LET r == discovery.chains[chain]
        IN r.bridge_filtered = r.total_found - r.count /\ r.bridge_filtered >= 0

\* no converter, as one chain reported it, is both active and excluded
ActiveExcludedDisjoint ==
    \A i \in 1..Len(discovery.active_converters) :
        \A j \in 1..Len(discovery.excluded_converters) :
            discovery.active_converters[i].raw_data
                # discovery.excluded_converters[j].raw_data

Orderings(n) ==
    {f \in [1..n -> 1..n] : \A i, j \in 1..n : f[i] = f[j] => i = j}

\* the list s in the order f
Permuted(s, f) == [i \in 1..Len(s) |-> s[f[i]]]

\* per key, the volumes and the price of the records of a CMC-shaped result
VolumesAndPrice(tickers) ==
    [key \in DOMAIN tickers |->
        <<tickers[key].base_volume, tickers[key].quote_volume, tickers[key].last_price>>]

\* the same for the list coinpaprika returns
PaprikaVolumesAndPrice(tickers) ==
    {<<tickers[i].symbol, tickers[i].volume, tickers[i].last>> : i \in 1..Len(tickers)}

\* the aggregator that was called gives, per key, the same on the list s
SameAggregate(s) ==
    CASE called = "coinpaprika" ->
             PaprikaVolumesAndPrice(generate_coinpaprika_tickers(s))
                 = PaprikaVolumesAndPrice(paprika_tickers)
      [] called = "coinmarketcap" ->
             VolumesAndPrice(generate_coinmarketcap_enhanced_tickers(s))
                 = VolumesAndPrice(cmc_tickers)
      [] called = "iaddress" ->
             VolumesAndPrice(format_iaddress_coinmarketcap_tickers(s))
                 = VolumesAndPrice(iaddress_tickers)
      [] OTHER -> TRUE

\* C28: for each aggregator the summed volumes and the price of every key
\* are the same for every permutation of the input list
C28_OrderIndependent ==
    \A f \in Orderings(Len(pairs_data)) : SameAggregate(Permuted(pairs_data, f))

(***************************************************************************)
(* Claims about get_vrsc_supply                                            *)
(***************************************************************************)
\* the call just made asked every source and none answered with a supply
EverySourceFailed(outcome) ==
    /\ outcome.called
    /\ ~outcome.from_cache
    /\ outcome.asked = SupplySources
    /\ ~outcome.response.present

\* C29: when every total-supply source fails, get_vrsc_supply fails with
\* status 503, returns no value and leaves the response cache unchanged
C29_AllSourcesFail503 ==
    [][(now' = now /\ EverySourceFailed(supply_call')) =>
           /\ supply_call'.status = 503
           /\ ~supply_call'.response.present
           /\ supply_response_cache' = supply_response_cache]_vars

\* a response was computed less than ttl seconds before the time given
Fresh(cache, time) ==
    cache.response.present /\ time < cache.timestamp + SupplyTtl

\* C30: a call made less than 600 seconds after a response was computed
\* returns that cached response without asking a supply source or reading
\* the discovery file; a call at or after 600 seconds computes anew; a
\* computation that fails leaves the cache as it is, one that succeeds stores
\* its response with the time of the call
C30_CachedForTtl ==
    [][now' = now =>
           IF Fresh(supply_response_cache, now)
           THEN /\ supply_call'.response = supply_response_cache.response
                /\ supply_call'.asked = <<>>
                /\ ~supply_call'.read_file
                /\ supply_response_cache' = supply_response_cache
           ELSE /\ supply_call'.asked # <<>>
                /\ IF supply_call'.response.present
                   THEN /\ supply_response_cache'.response = supply_call'.response
                        /\ supply_response_cache'.timestamp = now
                   ELSE supply_response_cache' = supply_response_cache]_vars

\* a call served from the cache 599 seconds after the response was computed
C30_Witness ==
    /\ supply_call.called
    /\ supply_call.from_cache
    /\ supply_call.at = supply_response_cache.timestamp + SupplyTtl - 1

====
